---- MODULE Spec2Model ----
(***************************************************************************)
(* Ticket ingestion of the Trend dashboard: parseExcelData and             *)
(* calculateWeekNumbers (src/utils/excelParser.ts) and the import loop of  *)
(* DataImportView (handleImport).                                          *)
(*                                                                         *)
(* Representation.  A JavaScript string is a sequence of one-character     *)
(* strings; null and undefined are the one-element sequences Null and      *)
(* Undefined (no JavaScript string equals them).  A JavaScript number that *)
(* may be NaN is <<n>> or NaN == <<>>.  An instant (Date.getTime()) is     *)
(* [day, sec]: whole days since 1970-01-01 (UTC) and the second of that    *)
(* day; the time zone is a fixed offset tz, in minutes east of UTC.  An    *)
(* object is a function from its own property names to their values.       *)
(***************************************************************************)
EXTENDS Integers, Sequences, FiniteSets, TLC

VARIABLES
  zone,      \* the environment's time zone, minutes east of UTC
  phase,     \* how far the operation under study has got
  csv,       \* Papa.parse's outcome for the text handed to parseExcelData
  parsed,    \* what parseExcelData returned (NotCalled before the call)
  tickets,   \* the batch handed to calculateWeekNumbers
  weeks,     \* what calculateWeekNumbers returned for tickets
  again,     \* what calculateWeekNumbers returned for weeks
  view,      \* DataImportView's state: pastedData, importName, parsedResult, importing
  user,      \* useAuth().user: TRUE when signed in
  run,       \* the handleImport call in progress: where it awaits, and its closure
  requests,  \* the requests api.post has sent, in order, with how each ended
  server,    \* what the server has stored: import records and tickets
  notes,     \* what the view has reported: toasts, in order, and onImportComplete calls
  callArg,   \* the argument of the function under study, in the specifications of one call
  callResult \* what that call returned (NotReturned before it)

parseVars == <<csv, parsed>>
weekVars == <<tickets, weeks, again>>
importVars == <<view, user, run, requests, server, notes>>
callVars == <<callArg, callResult>>
vars == <<zone, phase, parseVars, weekVars, importVars, callVars>>

Null == <<"null">>
Undefined == <<"undefined">>
NaN == <<>>
Num(n) == <<n>>
IsNaN(x) == x = NaN

SetMin(S) == CHOOSE x \in S : \A y \in S : x <= y
SetMax(S) == CHOOSE x \in S : \A y \in S : x >= y

----------------------------------------------------------------------------
(* String primitives                                                        *)

Whitespace == {" ", "\t"}
DigitSeq == <<"0","1","2","3","4","5","6","7","8","9">>
DigitChars == {DigitSeq[i] : i \in 1..10}
UpperSeq == <<"A","B","C","D","E","F","G","H","I","J","K","L","M","N","O","P","Q","R","S","T","U","V","W","X","Y","Z">>
LowerSeq == <<"a","b","c","d","e","f","g","h","i","j","k","l","m","n","o","p","q","r","s","t","u","v","w","x","y","z">>
UpperChars == {UpperSeq[i] : i \in 1..26}
LowerChars == {LowerSeq[i] : i \in 1..26}

IsDigit(c) == c \in DigitChars
DigitVal(c) == (CHOOSE i \in 1..10 : DigitSeq[i] = c) - 1

LowerChar(c) == IF c \in UpperChars THEN LowerSeq[CHOOSE i \in 1..26 : UpperSeq[i] = c] ELSE c
UpperChar(c) == IF c \in LowerChars THEN UpperSeq[CHOOSE i \in 1..26 : LowerSeq[i] = c] ELSE c

\* String.prototype.toLowerCase / toUpperCase
toLowerCase(s) == [i \in 1..Len(s) |-> LowerChar(s[i])]
toUpperCase(s) == [i \in 1..Len(s) |-> UpperChar(s[i])]

\* String.prototype.trim
trim(s) ==
  LET keep == {i \in 1..Len(s) : s[i] \notin Whitespace}
  IN IF keep = {} THEN <<>> ELSE SubSeq(s, SetMin(keep), SetMax(keep))

\* String.prototype.includes
Includes(s, sub) == \E i \in 1..(Len(s) - Len(sub) + 1) : SubSeq(s, i, i + Len(sub) - 1) = sub

\* s.startsWith(sub, at p) on 1-based positions
StartsAt(s, p, sub) == p + Len(sub) - 1 <= Len(s) /\ SubSeq(s, p, p + Len(sub) - 1) = sub

\* Number of characters of class C starting at position p
RECURSIVE Run(_, _, _)
Run(s, p, C) == IF p <= Len(s) /\ s[p] \in C THEN 1 + Run(s, p + 1, C) ELSE 0

\* parseInt of the n digits starting at position p
RECURSIVE DigitsValue(_, _, _)
DigitsValue(s, p, n) == IF n = 0 THEN 0 ELSE DigitsValue(s, p, n - 1) * 10 + DigitVal(s[p + n - 1])

\* String(n) for an integer n >= 0
RECURSIVE NatToString(_)
NatToString(n) == IF n < 10 THEN <<DigitSeq[n + 1]>> ELSE NatToString(n \div 10) \o <<DigitSeq[(n % 10) + 1]>>

\* n written with at least w digits (padStart(w, '0'))
RECURSIVE Pad(_, _)
Pad(n, w) == IF w <= 1 THEN NatToString(n) ELSE IF Len(NatToString(n)) >= w THEN NatToString(n) ELSE <<"0">> \o Pad(n, w - 1)

----------------------------------------------------------------------------
(* Date: the proleptic Gregorian calendar, as ECMAScript's Date uses it.    *)
(* An instant is [day, sec]: whole days since 1970-01-01 (UTC) and the      *)
(* second of that day, i.e. the time value day * 86400 + sec in seconds.    *)

SecondsPerDay == 86400

Instant(d, s) == [day |-> d + s \div SecondsPerDay, sec |-> s % SecondsPerDay]

\* a < b, a <= b on time values
Before(a, b) == a.day < b.day \/ (a.day = b.day /\ a.sec < b.sec)
NotAfter(a, b) == a = b \/ Before(a, b)

\* Day number (days since 1970-01-01) of year y, month m in 1..12, day d
DaysFromCivil(y, m, d) ==
  LET yy == IF m <= 2 THEN y - 1 ELSE y
      era == yy \div 400
      yoe == yy - era * 400
      mp == (m + 9) % 12
      doy == (153 * mp + 2) \div 5 + d - 1
      doe == yoe * 365 + yoe \div 4 - yoe \div 100 + doy
  IN era * 146097 + doe - 719468

\* Year, month and day of a day number
CivilFromDays(z) ==
  LET zz == z + 719468
      era == zz \div 146097
      doe == zz - era * 146097
      yoe == (doe - doe \div 1460 + doe \div 36524 - doe \div 146096) \div 365
      doy == doe - (365 * yoe + yoe \div 4 - yoe \div 100)
      mp == (5 * doy + 2) \div 153
      d == doy - (153 * mp + 2) \div 5 + 1
      m == IF mp < 10 THEN mp + 3 ELSE mp - 9
  IN [year |-> IF m <= 2 THEN yoe + era * 400 + 1 ELSE yoe + era * 400, month |-> m, day |-> d]

DaysInMonth(y, m) == DaysFromCivil(y + m \div 12, (m % 12) + 1, 1) - DaysFromCivil(y, m, 1)

\* Date.UTC(year, monthIndex, day, h, mi, s): out-of-range fields carry over
MakeUTC(year, monthIndex, day, h, mi, s) ==
  Instant(DaysFromCivil(year + monthIndex \div 12, (monthIndex % 12) + 1, 1) + day - 1,
          h * 3600 + mi * 60 + s)

\* new Date(year, monthIndex, day, h, mi, s).getTime(): the fields are local
\* time; a year in 0..99 means 1900 + year
MakeLocal(year, monthIndex, day, h, mi, s, tz) ==
  LET y == IF year >= 0 /\ year <= 99 THEN 1900 + year ELSE year
  IN Instant(DaysFromCivil(y + monthIndex \div 12, (monthIndex % 12) + 1, 1) + day - 1,
             h * 3600 + mi * 60 + s - tz * 60)

\* Date.prototype.toISOString of a valid instant t
toISOString(t) ==
  LET c == CivilFromDays(t.day)
  IN Pad(c.year, 4) \o <<"-">> \o Pad(c.month, 2) \o <<"-">> \o Pad(c.day, 2) \o <<"T">>
     \o Pad(t.sec \div 3600, 2) \o <<":">> \o Pad((t.sec % 3600) \div 60, 2) \o <<":">>
     \o Pad(t.sec % 60, 2) \o <<".","0","0","0","Z">>

\* Date.prototype.setHours(0, 0, 0, 0): the start of t's local day
StartOfLocalDay(t, tz) == Instant(Instant(t.day, t.sec + tz * 60).day, 0 - tz * 60)

\* Math.floor((a.getTime() - b.getTime()) / (1000 * 60 * 60 * 24))
FloorDaysBetween(a, b) == (a.day - b.day) + ((a.sec - b.sec) \div SecondsPerDay)

----------------------------------------------------------------------------
(* Pieces of the regular expressions of parseDate                           *)

DateSeparators == {"/", "-", "."}
LetterChars == UpperChars \cup LowerChars
NoTime == [ok |-> TRUE, hour |-> 0, minute |-> 0, second |-> 0, ampm |-> ""]
NoMatch == [ok |-> FALSE, hour |-> 0, minute |-> 0, second |-> 0, ampm |-> ""]

\* (?:\s+(\d{1,2}):(\d{2})(?::(\d{2}))?(?:\s*(AM|PM))?)?$ matched from position p;
\* the AM/PM group only where the expression has it
TimeTail(s, p, withAmPm) ==
  IF p > Len(s) THEN NoTime
  ELSE
    LET ws == Run(s, p, Whitespace)
        ph == p + ws
        nh == Run(s, ph, DigitChars)
        pm == ph + nh + 1
        nm == Run(s, pm, DigitChars)
        hasSec == StartsAt(s, pm + 2, <<":">>)
        ns == Run(s, pm + 3, DigitChars)
        pe == IF hasSec THEN pm + 5 ELSE pm + 2
        ws2 == Run(s, pe, Whitespace)
        pa == pe + ws2
        word == IF pa + 1 = Len(s) THEN toUpperCase(SubSeq(s, pa, pa + 1)) ELSE <<>>
    IN IF ~(ws >= 1 /\ nh \in {1, 2} /\ StartsAt(s, ph + nh, <<":">>) /\ nm = 2) THEN NoMatch
       ELSE IF hasSec /\ ns # 2 THEN NoMatch
       ELSE IF pe > Len(s)
         THEN [ok |-> TRUE, hour |-> DigitsValue(s, ph, nh), minute |-> DigitsValue(s, pm, 2),
               second |-> IF hasSec THEN DigitsValue(s, pm + 3, 2) ELSE 0, ampm |-> ""]
       ELSE IF withAmPm /\ word \in {<<"A","M">>, <<"P","M">>}
         THEN [ok |-> TRUE, hour |-> DigitsValue(s, ph, nh), minute |-> DigitsValue(s, pm, 2),
               second |-> IF hasSec THEN DigitsValue(s, pm + 3, 2) ELSE 0,
               ampm |-> IF word = <<"A","M">> THEN "AM" ELSE "PM"]
       ELSE NoMatch

\* ^(\d{1,2})[\/\-\.](\d{1,2})[\/\-\.](\d{4}) <time tail with AM/PM> $
MatchNumericDayFirst(s) ==
  LET n1 == Run(s, 1, DigitChars)
      p2 == n1 + 2
      n2 == Run(s, p2, DigitChars)
      p3 == p2 + n2 + 1
      n3 == Run(s, p3, DigitChars)
      tail == TimeTail(s, p3 + 4, TRUE)
  IN IF n1 \in {1, 2} /\ p2 - 1 <= Len(s) /\ s[p2 - 1] \in DateSeparators
        /\ n2 \in {1, 2} /\ p3 - 1 <= Len(s) /\ s[p3 - 1] \in DateSeparators
        /\ n3 = 4 /\ tail.ok
     THEN [ok |-> TRUE, a |-> DigitsValue(s, 1, n1), b |-> DigitsValue(s, p2, n2),
           year |-> DigitsValue(s, p3, 4), sep |-> s[p2 - 1], sep2 |-> s[p3 - 1], time |-> tail]
     ELSE [ok |-> FALSE, a |-> 0, b |-> 0, year |-> 0, sep |-> "", sep2 |-> "", time |-> NoMatch]

\* ^(\d{4})[\/\-\.](\d{1,2})[\/\-\.](\d{1,2}) <time tail> $
MatchYearFirst(s, withAmPm) ==
  LET n1 == Run(s, 1, DigitChars)
      p2 == n1 + 2
      n2 == Run(s, p2, DigitChars)
      p3 == p2 + n2 + 1
      n3 == Run(s, p3, DigitChars)
      tail == TimeTail(s, p3 + n3, withAmPm)
  IN IF n1 = 4 /\ p2 - 1 <= Len(s) /\ s[p2 - 1] \in DateSeparators
        /\ n2 \in {1, 2} /\ p3 - 1 <= Len(s) /\ s[p3 - 1] \in DateSeparators
        /\ n3 \in {1, 2} /\ tail.ok
     THEN [ok |-> TRUE, year |-> DigitsValue(s, 1, 4), month |-> DigitsValue(s, p2, n2),
           day |-> DigitsValue(s, p3, n3), sep |-> s[p2 - 1], sep2 |-> s[p3 - 1],
           padded |-> (n2 = 2 /\ n3 = 2), time |-> tail]
     ELSE [ok |-> FALSE, year |-> 0, month |-> 0, day |-> 0, sep |-> "", sep2 |-> "",
           padded |-> FALSE, time |-> NoMatch]

MonthNames == <<<<"j","a","n">>, <<"f","e","b">>, <<"m","a","r">>, <<"a","p","r">>, <<"m","a","y">>, <<"j","u","n">>,
                <<"j","u","l">>, <<"a","u","g">>, <<"s","e","p">>, <<"o","c","t">>, <<"n","o","v">>, <<"d","e","c">>>>

\* monthMap[name.toLowerCase().substring(0, 3)], or -1 when the three letters
\* starting at p are no month name
MonthIndexAt(s, p) ==
  IF p + 2 <= Len(s) /\ \E i \in 1..12 : MonthNames[i] = toLowerCase(SubSeq(s, p, p + 2))
  THEN (CHOOSE i \in 1..12 : MonthNames[i] = toLowerCase(SubSeq(s, p, p + 2))) - 1
  ELSE -1

\* ^(\d{1,2})[\s\-](Jan|...|Dec)[a-z]*[\s\-](\d{4}) <time tail> $   (flag i)
MatchDayMonthName(s) ==
  LET n1 == Run(s, 1, DigitChars)
      pm == n1 + 2
      nl == Run(s, pm, LetterChars)
      py == pm + nl + 1
      ny == Run(s, py, DigitChars)
      tail == TimeTail(s, py + 4, FALSE)
  IN IF n1 \in {1, 2} /\ pm - 1 <= Len(s) /\ s[pm - 1] \in Whitespace \cup {"-"}
        /\ nl >= 3 /\ MonthIndexAt(s, pm) >= 0
        /\ py - 1 <= Len(s) /\ s[py - 1] \in Whitespace \cup {"-"}
        /\ ny = 4 /\ tail.ok
     THEN [ok |-> TRUE, day |-> DigitsValue(s, 1, n1), month |-> MonthIndexAt(s, pm),
           year |-> DigitsValue(s, py, 4), time |-> tail]
     ELSE [ok |-> FALSE, day |-> 0, month |-> 0, year |-> 0, time |-> NoMatch]

\* ^(Jan|...|Dec)[a-z]*\s+(\d{1,2}),?\s+(\d{4}) <time tail> $   (flag i)
MatchMonthNameDay(s) ==
  LET nl == Run(s, 1, LetterChars)
      w1 == Run(s, nl + 1, Whitespace)
      pd == nl + 1 + w1
      nd == Run(s, pd, DigitChars)
      comma == IF StartsAt(s, pd + nd, <<",">>) THEN 1 ELSE 0
      w2 == Run(s, pd + nd + comma, Whitespace)
      py == pd + nd + comma + w2
      ny == Run(s, py, DigitChars)
      tail == TimeTail(s, py + 4, FALSE)
  IN IF nl >= 3 /\ MonthIndexAt(s, 1) >= 0 /\ w1 >= 1 /\ nd \in {1, 2} /\ w2 >= 1
        /\ ny = 4 /\ tail.ok
     THEN [ok |-> TRUE, day |-> DigitsValue(s, pd, nd), month |-> MonthIndexAt(s, 1),
           year |-> DigitsValue(s, py, 4), time |-> tail]
     ELSE [ok |-> FALSE, day |-> 0, month |-> 0, year |-> 0, time |-> NoMatch]

----------------------------------------------------------------------------
(* new Date(string): ISO 8601 as ECMAScript defines it, and the legacy      *)
(* formats every engine reads (month-first numeric dates, named months,     *)
(* year-first dates with a time), all taken as local time.  A string with   *)
(* no digit, or of no shape listed here, is an Invalid Date.                *)

\* YYYY-MM-DDTHH:MM:SS, then optionally .sss, then optionally Z
MatchISODateTime(s) ==
  LET digitsAt(p, n) == p + n - 1 <= Len(s) /\ \A i \in p..(p + n - 1) : s[i] \in DigitChars
      frac == StartsAt(s, 20, <<".">>)
      pz == IF frac THEN 24 ELSE 20
      utc == pz = Len(s) /\ s[pz] = "Z"
  IN IF /\ Len(s) >= 19
        /\ digitsAt(1, 4) /\ s[5] = "-" /\ digitsAt(6, 2) /\ s[8] = "-" /\ digitsAt(9, 2)
        /\ s[11] = "T" /\ digitsAt(12, 2) /\ s[14] = ":" /\ digitsAt(15, 2)
        /\ s[17] = ":" /\ digitsAt(18, 2)
        /\ (frac => digitsAt(21, 3))
        /\ (pz > Len(s) \/ utc)
     THEN [ok |-> TRUE, year |-> DigitsValue(s, 1, 4), month |-> DigitsValue(s, 6, 2),
           day |-> DigitsValue(s, 9, 2), hour |-> DigitsValue(s, 12, 2),
           minute |-> DigitsValue(s, 15, 2), second |-> DigitsValue(s, 18, 2), utc |-> utc]
     ELSE [ok |-> FALSE, year |-> 0, month |-> 0, day |-> 0, hour |-> 0, minute |-> 0,
           second |-> 0, utc |-> FALSE]

\* The hour of a 12-hour clock reading
Hour24(time) ==
  IF time.ampm = "PM" /\ time.hour < 12 THEN time.hour + 12
  ELSE IF time.ampm = "AM" /\ time.hour = 12 THEN 0
  ELSE time.hour

ValidClock(time) == Hour24(time) <= 23 /\ time.minute <= 59 /\ time.second <= 59

\* The time value of the matches of a string of length n against the formats
\* new Date(string) reads, tried in this order
DateFromMatches(iso, yf, us, dm, md, n, tz) ==
  IF iso.ok
    THEN IF iso.month \in 1..12 /\ iso.day >= 1 /\ iso.day <= DaysInMonth(iso.year, iso.month)
            /\ iso.hour <= 23 /\ iso.minute <= 59 /\ iso.second <= 59
         THEN IF iso.utc
                THEN Num(MakeUTC(iso.year, iso.month - 1, iso.day, iso.hour, iso.minute, iso.second))
                ELSE Num(MakeLocal(iso.year, iso.month - 1, iso.day, iso.hour, iso.minute, iso.second, tz))
         ELSE NaN
  ELSE IF yf.ok /\ yf.sep = yf.sep2 /\ yf.sep \in {"-", "/"}
    THEN IF yf.month \in 1..12 /\ yf.day >= 1 /\ yf.day <= DaysInMonth(yf.year, yf.month)
            /\ ValidClock(yf.time)
         THEN IF yf.sep = "-" /\ yf.padded /\ n = 10
                THEN Num(MakeUTC(yf.year, yf.month - 1, yf.day, 0, 0, 0))
                ELSE Num(MakeLocal(yf.year, yf.month - 1, yf.day, Hour24(yf.time),
                                   yf.time.minute, yf.time.second, tz))
         ELSE NaN
  ELSE IF us.ok /\ us.sep = us.sep2 /\ us.sep \in {"-", "/"}
    THEN IF us.a \in 1..12 /\ us.b >= 1 /\ us.b <= DaysInMonth(us.year, us.a)
            /\ ValidClock(us.time)
         THEN Num(MakeLocal(us.year, us.a - 1, us.b, Hour24(us.time), us.time.minute,
                            us.time.second, tz))
         ELSE NaN
  ELSE IF dm.ok
    THEN IF dm.day >= 1 /\ dm.day <= DaysInMonth(dm.year, dm.month + 1) /\ ValidClock(dm.time)
         THEN Num(MakeLocal(dm.year, dm.month, dm.day, dm.time.hour, dm.time.minute,
                            dm.time.second, tz))
         ELSE NaN
  ELSE IF md.ok
    THEN IF md.day >= 1 /\ md.day <= DaysInMonth(md.year, md.month + 1) /\ ValidClock(md.time)
         THEN Num(MakeLocal(md.year, md.month, md.day, md.time.hour, md.time.minute,
                            md.time.second, tz))
         ELSE NaN
  ELSE NaN

\* new Date(s).getTime() for a trimmed string s
DateParse(s, tz) ==
  DateFromMatches(MatchISODateTime(s), MatchYearFirst(s, TRUE), MatchNumericDayFirst(s),
                  MatchDayMonthName(s), MatchMonthNameDay(s), Len(s), tz)

----------------------------------------------------------------------------
(* parseFloat, as far as parseDate uses it: the leading decimal number      *)

\* [ok, neg, int, fracSeconds]: the number int + fraction read from the start
\* of s, its fraction already multiplied out to seconds of a day
ParseFloatPrefix(s) ==
  LET sign == IF Len(s) >= 1 /\ s[1] \in {"+", "-"} THEN 1 ELSE 0
      ni == Run(s, sign + 1, DigitChars)
      dot == StartsAt(s, sign + ni + 1, <<".">>)
      nf == IF dot THEN Run(s, sign + ni + 2, DigitChars) ELSE 0
      RECURSIVE Pow10(_)
      Pow10(k) == IF k = 0 THEN 1 ELSE 10 * Pow10(k - 1)
  IN IF ni + nf = 0 THEN [ok |-> FALSE, neg |-> FALSE, int |-> 0, fracSeconds |-> 0, frac |-> 0]
     ELSE [ok |-> TRUE, neg |-> (sign = 1 /\ s[1] = "-"),
           int |-> DigitsValue(s, sign + 1, ni),
           frac |-> DigitsValue(s, sign + ni + 2, nf),
           fracSeconds |-> (DigitsValue(s, sign + ni + 2, nf) * SecondsPerDay) \div Pow10(nf)]

\* Days from 1970-01-01 back to new Date(1899, 11, 30)
ExcelEpochDay == DaysFromCivil(1899, 12, 30)
ExcelSerialLimit == 100000

----------------------------------------------------------------------------
(* parseDate (src/utils/excelParser.ts): an ISO string or Null              *)

\* The strategies of parseDate in order, given what each expression matched:
\* direct is new Date(trimmed), m1..m4 the four regular expressions, f parseFloat
ParseStrategies(direct, m1, m2, m3, m4, f, tz) ==
  IF ~IsNaN(direct) THEN toISOString(direct[1])
  ELSE IF m1.ok /\ m1.a <= 31 /\ m1.b <= 12
    THEN toISOString(MakeLocal(m1.year, m1.b - 1, m1.a, Hour24(m1.time), m1.time.minute,
                               m1.time.second, tz))
  ELSE IF m1.ok /\ m1.a > 12 /\ m1.b <= 31
    THEN toISOString(MakeLocal(m1.year, m1.a - 1, m1.b, Hour24(m1.time), m1.time.minute,
                               m1.time.second, tz))
  ELSE IF m2.ok
    THEN toISOString(MakeLocal(m2.year, m2.month - 1, m2.day, m2.time.hour, m2.time.minute,
                               m2.time.second, tz))
  ELSE IF m3.ok
    THEN toISOString(MakeLocal(m3.year, m3.month, m3.day, m3.time.hour, m3.time.minute,
                               m3.time.second, tz))
  ELSE IF m4.ok
    THEN toISOString(MakeLocal(m4.year, m4.month, m4.day, m4.time.hour, m4.time.minute,
                               m4.time.second, tz))
  ELSE IF f.ok /\ ~f.neg /\ (f.int > 0 \/ f.frac > 0) /\ f.int < ExcelSerialLimit
    THEN toISOString(Instant(ExcelEpochDay + f.int, f.fracSeconds - tz * 60))
  ELSE Null

ParseTrimmed(trimmed, tz) ==
  IF trimmed = <<>> THEN Null
  ELSE ParseStrategies(DateParse(trimmed, tz), MatchNumericDayFirst(trimmed),
                       MatchYearFirst(trimmed, FALSE), MatchDayMonthName(trimmed),
                       MatchMonthNameDay(trimmed), ParseFloatPrefix(trimmed), tz)

parseDate(dateStr, tz) == ParseTrimmed(trim(dateStr), tz)

----------------------------------------------------------------------------
(* Column mapping and priority (src/utils/excelParser.ts)                   *)

\* COLUMN_MAPPING: <<lower-case header, field of TicketData>>, in source order
COLUMN_MAPPING == <<
  <<<<"t","i","c","k","e","t"," ","i","d">>, "ticket_id">>,
  <<<<"t","i","c","k","e","t","i","d">>, "ticket_id">>,
  <<<<"r","e","q","u","e","s","t"," ","t","i","m","e">>, "request_time">>,
  <<<<"r","e","q","u","e","s","t","t","i","m","e">>, "request_time">>,
  <<<<"w","e","e","k">>, "week_label">>,
  <<<<"w","e","e","k","s">>, "week_label">>,
  <<<<"i","n","i","t","i","a","t","o","r">>, "initiator">>,
  <<<<"a","f","f","i","l","i","a","t","e">>, "affiliate">>,
  <<<<"c","l","u","s","t","e","r">>, "cluster">>,
  <<<<"c","l","u","s","t","e","r","s">>, "cluster">>,
  <<<<"s","e","r","v","i","c","e"," ","r","e","c","o","r","d"," ","t","y","p","e">>, "service_record_type">>,
  <<<<"s","e","r","v","i","c","e","r","e","c","o","r","d","t","y","p","e">>, "service_record_type">>,
  <<<<"r","e","c","o","r","d"," ","t","y","p","e">>, "service_record_type">>,
  <<<<"c","a","t","e","g","o","r","y">>, "category">>,
  <<<<"s","u","b","-","c","a","t","e","g","o","r","y">>, "sub_category">>,
  <<<<"s","u","b","c","a","t","e","g","o","r","y">>, "sub_category">>,
  <<<<"s","u","b"," ","c","a","t","e","g","o","r","y">>, "sub_category">>,
  <<<<"t","h","i","r","d"," ","l","v","l"," ","c","a","t","e","g","o","r","y">>, "third_lvl_category">>,
  <<<<"t","h","i","r","d"," ","l","e","v","e","l"," ","c","a","t","e","g","o","r","y">>, "third_lvl_category">>,
  <<<<"t","h","i","r","d","l","v","l","c","a","t","e","g","o","r","y">>, "third_lvl_category">>,
  <<<<"3","r","d"," ","l","v","l"," ","c","a","t","e","g","o","r","y">>, "third_lvl_category">>,
  <<<<"t","i","t","l","e">>, "title">>,
  <<<<"d","e","s","c","r","i","p","t","i","o","n">>, "description">>,
  <<<<"n","a","m","e">>, "name">>,
  <<<<"s","u","p","p","o","r","t"," ","g","r","o","u","p">>, "support_group">>,
  <<<<"s","u","p","p","o","r","t","g","r","o","u","p">>, "support_group">>,
  <<<<"p","r","o","c","e","s","s">>, "process">>,
  <<<<"p","r","o","c","e","s","s"," ","m","a","n","a","g","e","r">>, "process_manager">>,
  <<<<"p","r","o","c","e","s","s","m","a","n","a","g","e","r">>, "process_manager">>,
  <<<<"m","a","n","a","g","e","r">>, "process_manager">>,
  <<<<"p","r","i","o","r","i","t","y">>, "priority">>,
  <<<<"s","t","a","t","u","s">>, "status">>,
  <<<<"r","e","s","o","l","u","t","i","o","n">>, "resolution">>,
  <<<<"r","o","o","t"," ","c","a","u","s","e">>, "root_cause">>,
  <<<<"r","o","o","t","c","a","u","s","e">>, "root_cause">>,
  <<<<"i","n","c","i","d","e","n","t"," ","o","r","i","g","i","n">>, "incident_origin">>,
  <<<<"i","n","c","i","d","e","n","t","o","r","i","g","i","n">>, "incident_origin">>,
  <<<<"c","l","o","s","e"," ","t","i","m","e">>, "close_time">>,
  <<<<"c","l","o","s","e","t","i","m","e">>, "close_time">>,
  <<<<"s","l","a"," ","i","n","d","i","c","a","t","o","r">>, "sla_indicator">>,
  <<<<"s","l","a","i","n","d","i","c","a","t","o","r">>, "sla_indicator">> >>

NoField == ""

\* COLUMN_MAPPING[normalized] || null, NoField standing for null
LookupColumn(normalized) ==
  IF \E i \in 1..Len(COLUMN_MAPPING) : COLUMN_MAPPING[i][1] = normalized
  THEN COLUMN_MAPPING[CHOOSE i \in 1..Len(COLUMN_MAPPING) : COLUMN_MAPPING[i][1] = normalized][2]
  ELSE NoField

\* normalizeColumnName: the field a header maps to
normalizeColumnName(header) == LookupColumn(trim(toLowerCase(header)))

PriorityCodes == {<<"P","1">>, <<"P","2">>, <<"P","3">>, <<"P","4">>}

\* Variant: the words of priorityMap in alphabetical order
priorityMapAlphabetical == <<
  <<<<"C","R","I","T","I","C","A","L">>, <<"P","1">>>>,
  <<<<"H","I","G","H">>, <<"P","2">>>>,
  <<<<"L","O","W">>, <<"P","4">>>>,
  <<<<"M","E","D","I","U","M">>, <<"P","3">>>>,
  <<<<"N","O","R","M","A","L">>, <<"P","3">>>>,
  <<<<"U","R","G","E","N","T">>, <<"P","1">>>> >>

\* priorityMap, in the order Object.entries lists it
priorityMap == <<
  <<<<"C","R","I","T","I","C","A","L">>, <<"P","1">>>>,
  <<<<"H","I","G","H">>, <<"P","2">>>>,
  <<<<"M","E","D","I","U","M">>, <<"P","3">>>>,
  <<<<"L","O","W">>, <<"P","4">>>>,
  <<<<"U","R","G","E","N","T">>, <<"P","1">>>>,
  <<<<"N","O","R","M","A","L">>, <<"P","3">>>> >>

\* The first P[1-4] of normalized, else the first word of priorityMap it
\* contains, else Undefined
MatchPriority(normalized) ==
  IF normalized \in PriorityCodes THEN normalized
  ELSE IF \E i \in 1..(Len(normalized) - 1) : SubSeq(normalized, i, i + 1) \in PriorityCodes
    THEN SubSeq(normalized,
                SetMin({i \in 1..(Len(normalized) - 1) : SubSeq(normalized, i, i + 1) \in PriorityCodes}),
                SetMin({i \in 1..(Len(normalized) - 1) : SubSeq(normalized, i, i + 1) \in PriorityCodes}) + 1)
  ELSE IF \E i \in 1..Len(priorityMap) : Includes(normalized, priorityMap[i][1])
    THEN priorityMap[SetMin({i \in 1..Len(priorityMap) : Includes(normalized, priorityMap[i][1])})][2]
  ELSE Undefined

\* validatePriority: one of the four codes, or Undefined
validatePriority(priority) ==
  IF priority = <<>> THEN Undefined ELSE MatchPriority(trim(toUpperCase(priority)))

----------------------------------------------------------------------------
(* parseExcelData (src/utils/excelParser.ts)                                *)
(*                                                                          *)
(* Papa.parse is a library: its outcome for the given text is the input     *)
(* here, [threw, message, fields, data, errors], where data[i] is the row   *)
(* object of data row i (a function from the headers it has a field for to  *)
(* the cell text) and errors[i] is [code, row, message], row being          *)
(* <<index>> or <<>> when Papa gives none.                                  *)

EmptyObject == <<>>
Has(obj, key) == key \in DOMAIN obj
Put(obj, key, value) == [k \in (DOMAIN obj) \cup {key} |-> IF k = key THEN value ELSE obj[k]]

\* !obj[key] for a property that holds a string when present
Falsy(obj, key) == ~Has(obj, key) \/ obj[key] = <<>> \/ obj[key] = Undefined \/ obj[key] = Null

FieldCountCodes == {"TooFewFields", "TooManyFields"}

\* `Row ${rowNum}` of a tokenizer error
ErrorRowLabel(err) == <<"R","o","w"," ">> \o (IF err.row = <<>> THEN <<"U","n","k","n","o","w","n">> ELSE NatToString(err.row[1] + 2))

FieldCountWarning(err) ==
  ErrorRowLabel(err) \o <<":"," ">> \o err.message \o <<" ","-"," ","R","o","w"," ","w","i","l","l"," ","b","e"," ","s","k","i","p","p","e","d"," ","i","f"," ","i","n","v","a","l","i","d">>
TokenizerError(err) == ErrorRowLabel(err) \o <<":"," ">> \o err.message

\* result.errors.forEach: the warnings pushed (field-count mismatches)
RECURSIVE TokenizerWarnings(_)
TokenizerWarnings(errs) ==
  IF errs = <<>> THEN <<>>
  ELSE (IF Head(errs).code \in FieldCountCodes THEN <<FieldCountWarning(Head(errs))>> ELSE <<>>)
       \o TokenizerWarnings(Tail(errs))

\* Variant of TokenizerErrors that treats every tokenizer error as critical
RECURSIVE AllTokenizerErrors(_)
AllTokenizerErrors(errs) ==
  IF errs = <<>> THEN <<>>
  ELSE <<TokenizerError(Head(errs))>> \o AllTokenizerErrors(Tail(errs))

\* result.errors.forEach: the errors pushed (every other code)
RECURSIVE TokenizerErrors(_)
TokenizerErrors(errs) ==
  IF errs = <<>> THEN <<>>
  ELSE (IF Head(errs).code \in FieldCountCodes THEN <<>> ELSE <<TokenizerError(Head(errs))>>)
       \o TokenizerErrors(Tail(errs))

\* mappedHeaders: header -> field, for the headers normalizeColumnName knows
MapHeaders(headers) ==
  [h \in {headers[i] : i \in {j \in 1..Len(headers) : normalizeColumnName(headers[j]) # NoField}}
     |-> normalizeColumnName(h)]

\* !mappedHeaders.has(f) && !Array.from(mappedHeaders.values()).includes(f)
LacksColumn(mappedHeaders, field, fieldAsHeader) ==
  ~(fieldAsHeader \in DOMAIN mappedHeaders) /\ ~(\E h \in DOMAIN mappedHeaders : mappedHeaders[h] = field)

\* Variant of RequiredColumnErrors without the required-column check
NoColumnErrors(mappedHeaders) == <<>>

\* "Check for required fields": the errors pushed for missing columns
RequiredColumnErrors(mappedHeaders) ==
  (IF LacksColumn(mappedHeaders, "ticket_id", <<"t","i","c","k","e","t","_","i","d">>)
     THEN <<<<"M","i","s","s","i","n","g"," ","r","e","q","u","i","r","e","d"," ","c","o","l","u","m","n",":"," ","T","i","c","k","e","t"," ","I","D">>>> ELSE <<>>)
  \o (IF LacksColumn(mappedHeaders, "request_time", <<"r","e","q","u","e","s","t","_","t","i","m","e">>)
        THEN <<<<"M","i","s","s","i","n","g"," ","r","e","q","u","i","r","e","d"," ","c","o","l","u","m","n",":"," ","R","e","q","u","e","s","t"," ","T","i","m","e">>>> ELSE <<>>)

RowLabel(index) == <<"R","o","w"," ">> \o NatToString(index + 2)

\* The date branch: parsedDate is parseDate(value)
StoreDate(acc, index, header, fieldName, parsedDate) ==
  IF parsedDate # Null
    THEN [acc EXCEPT !.ticket = Put(@, fieldName, parsedDate)]
  ELSE IF fieldName = "request_time"
    THEN [acc EXCEPT !.warnings = Append(@, RowLabel(index) \o <<":"," ","I","n","v","a","l","i","d"," ","d","a","t","e"," ","f","o","r","m","a","t"," ","i","n"," ">> \o header)]
  ELSE acc

\* The priority branch: priority is validatePriority(value)
StorePriority(acc, index, value, priority) ==
  [ticket |-> Put(acc.ticket, "priority", priority),
   warnings |-> IF priority = Undefined
                  THEN Append(acc.warnings, RowLabel(index) \o <<":"," ","I","n","v","a","l","i","d"," ","p","r","i","o","r","i","t","y"," ","v","a","l","u","e"," ","\"">>
                                            \o value \o <<"\"","."," ","E","x","p","e","c","t","e","d"," ","P","1","-","P","4",".">>)
                  ELSE acc.warnings]

\* One mapped, present cell: value is String(row[header]).trim()
MapCell(acc, index, header, fieldName, value, tz) ==
  IF value = <<>> THEN acc
  ELSE IF fieldName \in {"request_time", "close_time"}
    THEN StoreDate(acc, index, header, fieldName, parseDate(value, tz))
  ELSE IF fieldName = "priority"
    THEN StorePriority(acc, index, value, validatePriority(value))
  ELSE [acc EXCEPT !.ticket = Put(@, fieldName, value)]

\* One pass of headers.forEach over a row: acc is [ticket, warnings]
MapColumn(acc, row, index, header, mappedHeaders, tz) ==
  IF ~Has(mappedHeaders, header) \/ ~Has(row, header) THEN acc
  ELSE MapCell(acc, index, header, mappedHeaders[header], trim(row[header]), tz)

RECURSIVE MapColumns(_, _, _, _, _, _, _)
MapColumns(acc, row, index, headers, k, mappedHeaders, tz) ==
  IF k > Len(headers) THEN acc
  ELSE MapColumns(MapColumn(acc, row, index, headers[k], mappedHeaders, tz),
                  row, index, headers, k + 1, mappedHeaders, tz)

\* String(Date.now()) for the clock reading [sec, ms]
NowString(now) == NatToString(now.sec) \o Pad(now.ms, 3)

\* Variant of SurrogateId that numbers the row by its 0-based index
SurrogateIdByIndex(now, index) == <<"A","U","T","O","-">> \o NatToString(now.sec) \o Pad(now.ms, 3) \o <<"-">> \o NatToString(index)

\* `AUTO-${Date.now()}-${index + 2}`
SurrogateId(now, index) == <<"A","U","T","O","-">> \o NowString(now) \o <<"-">> \o NatToString(index + 2)

\* if (!ticket.ticket_id): the surrogate id and its warning
EnsureTicketId(acc, index, now) ==
  IF Falsy(acc.ticket, "ticket_id")
    THEN [ticket |-> Put(acc.ticket, "ticket_id", SurrogateId(now, index)),
          warnings |-> Append(acc.warnings, RowLabel(index) \o <<":"," ","M","i","s","s","i","n","g"," ","T","i","c","k","e","t"," ","I","D",","," ","g","e","n","e","r","a","t","e","d"," ">>
                                            \o SurrogateId(now, index))]
    ELSE acc

\* Variant of RequireRequestTime that pushes every row
KeepAnyRow(acc, index) == [ticket |-> acc.ticket, warnings |-> acc.warnings, keep |-> TRUE]

\* if (!ticket.request_time): the row is skipped with a warning, else pushed
RequireRequestTime(acc, index) ==
  IF Falsy(acc.ticket, "request_time")
    THEN [ticket |-> acc.ticket,
          warnings |-> Append(acc.warnings, RowLabel(index) \o <<":"," ","M","i","s","s","i","n","g"," ","R","e","q","u","e","s","t"," ","T","i","m","e",","," ","s","k","i","p","p","i","n","g"," ","r","o","w">>),
          keep |-> FALSE]
    ELSE [ticket |-> acc.ticket, warnings |-> acc.warnings, keep |-> TRUE]

\* The body of result.data.forEach for the row at `index` (0-based):
\* [ticket, warnings, keep]
ProcessRow(row, index, headers, mappedHeaders, tz, now) ==
  RequireRequestTime(
    EnsureTicketId(MapColumns([ticket |-> EmptyObject, warnings |-> <<>>], row, index, headers, 1,
                              mappedHeaders, tz),
                   index, now),
    index)

\* Variant of AddRow that keeps at most one record
AddRowOnce(acc, r) ==
  [parsedTickets |-> IF r.keep /\ acc.parsedTickets = <<>> THEN <<r.ticket>> ELSE acc.parsedTickets,
   warnings |-> acc.warnings \o r.warnings]

\* parsedTickets.push and the row's warnings
AddRow(acc, r) ==
  [parsedTickets |-> IF r.keep THEN Append(acc.parsedTickets, r.ticket) ELSE acc.parsedTickets,
   warnings |-> acc.warnings \o r.warnings]

\* result.data.forEach: [parsedTickets, warnings] after the rows i..Len(data)
RECURSIVE ProcessRows(_, _, _, _, _, _, _)
ProcessRows(acc, data, i, headers, mappedHeaders, tz, now) ==
  IF i > Len(data) THEN acc
  ELSE ProcessRows(AddRow(acc, ProcessRow(data[i], i - 1, headers, mappedHeaders, tz, now)),
                   data, i + 1, headers, mappedHeaders, tz, now)

\* After the rows: 'No valid ticket data found' when nothing was kept
FinishParse(rows) ==
  [outcome |-> "returned", data |-> rows.parsedTickets,
   errors |-> IF Len(rows.parsedTickets) = 0
                THEN <<<<"N","o"," ","v","a","l","i","d"," ","t","i","c","k","e","t"," ","d","a","t","a"," ","f","o","u","n","d"," ","i","n"," ","t","h","e"," ","i","n","p","u","t">>>> ELSE <<>>,
   warnings |-> rows.warnings]

\* if (errors.length > 0) return { data: [], errors, warnings }, else the rows
ParseRows(result, errors, warnings, mappedHeaders, tz, now) ==
  IF Len(errors) > 0
    THEN [outcome |-> "returned", data |-> <<>>, errors |-> errors, warnings |-> warnings]
    ELSE FinishParse(ProcessRows([parsedTickets |-> <<>>, warnings |-> warnings], result.data, 1,
                                 result.fields, mappedHeaders, tz, now))

ParseMapped(result, mappedHeaders, tz, now) ==
  ParseRows(result, TokenizerErrors(result.errors) \o RequiredColumnErrors(mappedHeaders),
            TokenizerWarnings(result.errors), mappedHeaders, tz, now)

\* The try block once Papa.parse has returned `result`
ParseBody(result, tz, now) == ParseMapped(result, MapHeaders(result.fields), tz, now)

\* Variant of CatchParseError that lets the exception escape
Rethrow(message) == [outcome |-> "threw", data |-> <<>>, errors |-> <<>>, warnings |-> <<>>]

\* The catch of the outer try: `Parse error: ${err.message}`
CatchParseError(message) ==
  [outcome |-> "returned", data |-> <<>>, errors |-> <<<<"P","a","r","s","e"," ","e","r","r","o","r",":"," ">> \o message>>, warnings |-> <<>>]

\* parseExcelData(csvText), papa being Papa.parse's outcome for csvText
parseExcelData(papa, tz, now) ==
  IF papa.threw THEN CatchParseError(papa.message) ELSE ParseBody(papa, tz, now)

----------------------------------------------------------------------------
(* calculateWeekNumbers (src/utils/excelParser.ts)                          *)
(*                                                                          *)
(* A ticket is an object; its week_number is a number, <<n>> or NaN.        *)

\* !t.week_label || t.week_label.trim() === ''
NeedsWeek(t) == Falsy(t, "week_label") \/ trim(t.week_label) = <<>>

\* tickets.map(t => t.request_time).filter(d => d).map(d => new Date(d).getTime())
RECURSIVE RequestTimes(_, _)
RequestTimes(batch, tz) ==
  IF batch = <<>> THEN <<>>
  ELSE (IF Falsy(Head(batch), "request_time") THEN <<>> ELSE <<DateParse(Head(batch).request_time, tz)>>)
       \o RequestTimes(Tail(batch), tz)

\* Math.min(...dates) for a non-empty dates: NaN as soon as one of them is NaN
MathMin(dates) ==
  IF \E i \in 1..Len(dates) : IsNaN(dates[i]) THEN NaN
  ELSE dates[CHOOSE i \in 1..Len(dates) : \A j \in 1..Len(dates) : NotAfter(dates[i][1], dates[j][1])]

\* minDate.setHours(0, 0, 0, 0): an invalid Date stays invalid
SetHoursZero(d, tz) == IF IsNaN(d) THEN NaN ELSE <<StartOfLocalDay(d[1], tz)>>

\* Math.floor(Math.floor((ticketDate - minDate) / 86400000) / 7) + 1
WeekNumber(ticketDate, minDate) ==
  IF IsNaN(ticketDate) \/ IsNaN(minDate) THEN NaN
  ELSE Num((FloorDaysBetween(ticketDate[1], minDate[1]) \div 7) + 1)

\* `${weekNumber}`
NumberToString(x) == IF IsNaN(x) THEN <<"N","a","N">> ELSE NatToString(x[1])

\* { ...ticket, week_number: weekNumber, week_label: `Week ${weekNumber}` }
WithWeek(ticket, weekNumber) ==
  Put(Put(ticket, "week_number", weekNumber), "week_label", <<"W","e","e","k"," ">> \o NumberToString(weekNumber))

\* Variant of AssignWeek that relabels records which already have a label
AssignWeekToAll(ticket, minDate, tz) ==
  IF Falsy(ticket, "request_time") THEN ticket
  ELSE WithWeek(ticket, WeekNumber(DateParse(ticket.request_time, tz), minDate))

\* The callback of the final tickets.map
AssignWeek(ticket, minDate, tz) ==
  IF ~NeedsWeek(ticket) THEN ticket
  ELSE IF Falsy(ticket, "request_time") THEN ticket
  ELSE WithWeek(ticket, WeekNumber(DateParse(ticket.request_time, tz), minDate))

\* minDate: the earliest date, floored to the start of its local day
MinDate(dates, tz) == SetHoursZero(MathMin(dates), tz)

\* From `const dates` on
WeeksFromDates(batch, dates, tz) ==
  IF Len(dates) = 0 THEN batch
  ELSE [i \in 1..Len(batch) |-> AssignWeek(batch[i], MinDate(dates, tz), tz)]

\* calculateWeekNumbers(tickets)
calculateWeekNumbers(batch, tz) ==
  IF Len(batch) = 0 THEN batch
  ELSE IF \A i \in 1..Len(batch) : ~NeedsWeek(batch[i]) THEN batch
  ELSE WeeksFromDates(batch, RequestTimes(batch, tz), tz)

----------------------------------------------------------------------------
(* handleImport and handleClear of DataImportView                           *)
(*                                                                          *)
(* The records of a parsed batch are told apart by their position: record   *)
(* k of a batch is the number k. A request is [path, body, status], status  *)
(* being "pending" until the response arrives, then "ok" or "failed".       *)

\* const batchSize = 500
BatchSize == 500

\* data.slice(i, j) on 0-based i and exclusive j
Slice(data, i, j) == SubSeq(data, i + 1, IF j < Len(data) THEN j ELSE Len(data))

\* parsedResult: null, or { data, errors } (warnings play no part here)
NoResult == [present |-> FALSE, data |-> <<>>, errors |-> <<>>]
Result(data, errors) == [present |-> TRUE, data |-> data, errors |-> errors]

NoRun == [pc |-> "idle", data |-> <<>>, importId |-> 0, i |-> 0]

\* The button is rendered when parsedResult has data and no errors, and is
\* enabled unless importing or the name is blank; handleImport's own early
\* returns ask the same of parsedResult and importName
CanImport ==
  /\ view.parsedResult.present
  /\ Len(view.parsedResult.data) > 0 /\ Len(view.parsedResult.errors) = 0
  /\ ~view.importing /\ trim(view.importName) # <<>>

\* The body of POST /imports (the period fields are left out: records carry
\* no dates here)
ImportBody(name, data) == [import_name |-> name, total_records |-> Len(data)]

\* Variant of BatchBody whose chunk runs one record into the next chunk
BatchBodyOverlapping(importId, data, i) ==
  [import_id |-> importId, tickets |-> SubSeq(data, i + 1, IF i + 501 < Len(data) THEN i + 501 ELSE Len(data))]

\* The body of POST /tickets/batch for the chunk starting at i
BatchBody(importId, data, i) == [import_id |-> importId, tickets |-> Slice(data, i, i + BatchSize)]

Request(path, body) == [path |-> path, body |-> body, status |-> "pending"]

\* The last request gets its response
Answered(reqs, status) == [reqs EXCEPT ![Len(reqs)].status = status]

\* Variant of Failed without the finally block
FailedStillImporting(v) == v

\* catch + finally of handleImport
Failed(v) == [v EXCEPT !.importing = FALSE]
Toast(n, kind) == [n EXCEPT !.toasts = Append(@, kind)]

\* The success path: toast, form reset, onImportComplete, finally
Succeeded(v) == [v EXCEPT !.pastedData = <<>>, !.importName = <<>>, !.parsedResult = NoResult, !.importing = FALSE]

----------------------------------------------------------------------------
(* SpecParse: parseExcelData applied to every tokenizer outcome of a        *)
(* bounded family                                                           *)

MaxRows == 2

TimeZones == {-300, 60}
NowReadings == {[sec |-> 1762048800, ms |-> 7]}

H_TicketId == <<"T","i","c","k","e","t"," ","I","D">>
H_TicketIdAlt == <<"T","I","C","K","E","T","I","D">>
H_RequestTime == <<"R","e","q","u","e","s","t"," ","T","i","m","e">>
H_RequestTimeAlt == <<"r","e","q","u","e","s","t","t","i","m","e">>
H_Priority == <<"P","r","i","o","r","i","t","y">>
H_Notes == <<"N","o","t","e","s">>

\* The header rows tried: both required columns, one of them, neither, an
\* unknown column, and two columns mapped to request_time
HeaderChoices == {
  <<H_TicketId, H_RequestTime>>,
  <<H_TicketIdAlt, H_RequestTimeAlt, H_Priority>>,
  <<H_TicketId, H_RequestTimeAlt, H_RequestTime>>,
  <<H_RequestTime, H_Notes>>,
  <<H_TicketId, H_Notes>>,
  <<H_Notes>> }

TicketIdCells == {<<"T","1">>, <<" ">>}
DateCells == {<<"1","5","/","0","1","/","2","0","2","5">>, <<"n","/","a">>, <<>>}
AltDateCells == {<<"2","0","2","5","-","0","1","-","2","2">>, <<"n","/","a">>}
PriorityCells == {<<"P","1"," ","C","r","i","t","i","c","a","l">>, <<"r","a","n","d","o","m"," ","t","e","x","t">>}
NoteCells == {<<"x">>}

\* The cell texts tried under a header
CellsFor(header) ==
  CASE header \in {H_TicketId, H_TicketIdAlt} -> TicketIdCells
    [] header = H_RequestTime -> DateCells
    [] header = H_RequestTimeAlt -> AltDateCells
    [] header = H_Priority -> PriorityCells
    [] OTHER -> NoteCells

AllCells == TicketIdCells \cup DateCells \cup AltDateCells \cup PriorityCells \cup NoteCells

\* The row objects Papa builds under `headers`: full rows, and rows one field
\* short, which have no property for the last header
RowObjects(headers) ==
  UNION {{row \in [{headers[j] : j \in 1..k} -> AllCells] :
            \A h \in DOMAIN row : row[h] \in CellsFor(h)} : k \in {Len(headers) - 1, Len(headers)} \ {0}}

\* Papa reports TooFewFields for each short row, in row order
RECURSIVE FieldCountErrors(_, _, _)
FieldCountErrors(headers, data, i) ==
  IF i > Len(data) THEN <<>>
  ELSE (IF Cardinality(DOMAIN data[i]) < Len(headers)
          THEN <<[code |-> "TooFewFields", row |-> <<i - 1>>, message |-> <<"T","o","o"," ","f","e","w"," ","f","i","e","l","d","s">>]>>
          ELSE <<>>)
       \o FieldCountErrors(headers, data, i + 1)

QuoteError(data) ==
  [code |-> "MissingQuotes", row |-> <<Len(data) - 1>>, message |-> <<"Q","u","o","t","e","d"," ","f","i","e","l","d"," ","u","n","t","e","r","m","i","n","a","t","e","d">>]
DelimiterError ==
  [code |-> "UndetectableDelimiter", row |-> <<>>, message |-> <<"U","n","a","b","l","e"," ","t","o"," ","a","u","t","o","-","d","e","t","e","c","t"," ","d","e","l","i","m","i","t","i","n","g"," ","c","h","a","r","a","c","t","e","r">>]

\* The errors Papa may add to the field-count ones: none, an unterminated
\* quote in the last row, or (for a single column) no delimiter found
ExtraErrors(headers, data) ==
  {<<>>} \cup (IF Len(data) > 0 THEN {<<QuoteError(data)>>} ELSE {})
         \cup (IF Len(headers) = 1 THEN {<<DelimiterError>>} ELSE {})

PapaThrew == [threw |-> TRUE, message |-> <<"b","o","o","m">>, fields |-> <<>>, data |-> <<>>, errors |-> <<>>]
PapaReturned(headers, data, extra) ==
  [threw |-> FALSE, message |-> <<>>, fields |-> headers, data |-> data,
   errors |-> FieldCountErrors(headers, data, 1) \o extra]

\* The variables of the other operations while one is studied
ParseIdle == csv = PapaThrew /\ parsed = [outcome |-> "none", data |-> <<>>, errors |-> <<>>, warnings |-> <<>>]
NotReturned == [returned |-> FALSE]
CallIdle == callArg = [kind |-> "none"] /\ callResult = NotReturned
WeeksIdle == tickets = <<>> /\ weeks = <<>> /\ again = <<>>
ImportIdle ==
  /\ view = [pastedData |-> <<>>, importName |-> <<>>, parsedResult |-> NoResult, importing |-> FALSE]
  /\ user = FALSE /\ run = NoRun /\ requests = <<>>
  /\ server = [imports |-> <<>>, tickets |-> <<>>]
  /\ notes = [toasts |-> <<>>, completed |-> 0]

NotCalled == [outcome |-> "none", data |-> <<>>, errors |-> <<>>, warnings |-> <<>>]

InitParse ==
  /\ zone \in TimeZones
  /\ \/ csv = PapaThrew
     \/ \E headers \in HeaderChoices, n \in 0..MaxRows :
          \E data \in [1..n -> RowObjects(headers)] :
            \E extra \in ExtraErrors(headers, data) : csv = PapaReturned(headers, data, extra)
  /\ parsed = NotCalled
  /\ phase = "input"
  /\ WeeksIdle /\ ImportIdle /\ CallIdle

\* A call of parseExcelData
ParseExcelData ==
  /\ phase = "input"
  /\ \E now \in NowReadings : parsed' = parseExcelData(csv, zone, now)
  /\ phase' = "parsed"
  /\ UNCHANGED <<zone, csv, weekVars, importVars, callVars>>

NextParse == ParseExcelData

SpecParse == InitParse /\ [][NextParse]_vars

----------------------------------------------------------------------------
(* Properties of parseExcelData, over SpecParse                             *)

\* Papa.parse returned and parseExcelData has run
Returned == phase = "parsed" /\ ~csv.threw

\* The columns whose header maps to `field`
KnownFields == [h \in UNION {{hs[c] : c \in 1..Len(hs)} : hs \in HeaderChoices} |-> normalizeColumnName(h)]
ColumnsFor(field) == {c \in 1..Len(csv.fields) : KnownFields[csv.fields[c]] = field}
HasBothColumns == ColumnsFor("ticket_id") # {} /\ ColumnsFor("request_time") # {}
OnlyFieldCountErrors == \A k \in 1..Len(csv.errors) : csv.errors[k].code \in FieldCountCodes

\* The trimmed text of row i under column c, empty when the row has no such field
CellText(i, c) == IF Has(csv.data[i], csv.fields[c]) THEN trim(csv.data[i][csv.fields[c]]) ELSE <<>>

\* parseDate of the date texts of the input family, per time zone
KnownDates == [p \in (DateCells \cup AltDateCells) \X TimeZones |-> parseDate(p[1], p[2])]
DateOf(text) == IF <<text, zone>> \in DOMAIN KnownDates THEN KnownDates[<<text, zone>>] ELSE parseDate(text, zone)

\* The request_time columns of row i whose cell parses as a date
DateColumnsParsing(i) ==
  {c \in ColumnsFor("request_time") : CellText(i, c) # <<>> /\ DateOf(CellText(i, c)) # Null}
RowHasDate(i) == DateColumnsParsing(i) # {}
RowDate(i) == DateOf(CellText(i, SetMax(DateColumnsParsing(i))))
RowHasTicketId(i) == \E c \in ColumnsFor("ticket_id") : CellText(i, c) # <<>>
RowTicketId(i) == CellText(i, SetMax({c \in ColumnsFor("ticket_id") : CellText(i, c) # <<>>}))

\* How many of the rows 1..i have a parseable request_time
KeptUpTo(i) == Cardinality({j \in 1..i : RowHasDate(j)})

\* A warning of row i (1-based) that contains `text`
WarnsRow(i, text) ==
  \E w \in 1..Len(parsed.warnings) :
    StartsAt(parsed.warnings[w], 1, RowLabel(i - 1) \o <<":">>) /\ Includes(parsed.warnings[w], text)

\* /^AUTO-\d+-\d+$/ with the second number being `row`
IsAutoId(id, row) ==
  /\ StartsAt(id, 1, <<"A","U","T","O","-">>)
  /\ Run(id, 6, DigitChars) >= 1
  /\ StartsAt(id, 6 + Run(id, 6, DigitChars), <<"-">>)
  /\ SubSeq(id, 7 + Run(id, 6, DigitChars), Len(id)) = NatToString(row)

\* C1: when no header maps to ticket_id or none maps to request_time the
\* result has errors and no data, and in every result non-empty errors come
\* with empty data
C1_MissingColumnRejectsBatch ==
  phase = "parsed" =>
    /\ (~csv.threw /\ ~HasBothColumns) => (Len(parsed.errors) > 0 /\ parsed.data = <<>>)
    /\ Len(parsed.errors) > 0 => parsed.data = <<>>

C1_Witness ==
  /\ Returned /\ ColumnsFor("ticket_id") = {} /\ ColumnsFor("request_time") # {}
  /\ \E i \in 1..Len(csv.data) : RowHasDate(i)
  /\ Len(parsed.errors) > 0 /\ parsed.data = <<>>

\* C2: every record of data has a request_time that parses; when the rows are
\* read, a row without a parseable request_time is left out with a "Missing
\* Request Time" warning, and the records of the other rows are the ones those
\* rows produce on their own, in row order
C2_RecordsHaveRequestTime ==
  phase = "parsed" =>
    /\ \A k \in 1..Len(parsed.data) :
         Has(parsed.data[k], "request_time") /\ ~IsNaN(DateParse(parsed.data[k].request_time, zone))
    /\ (~csv.threw /\ HasBothColumns /\ OnlyFieldCountErrors) =>
         /\ Len(parsed.data) = KeptUpTo(Len(csv.data))
         /\ \A i \in 1..Len(csv.data) :
              IF RowHasDate(i)
                THEN /\ parsed.data[KeptUpTo(i)].request_time = RowDate(i)
                     /\ \E now \in NowReadings :
                          parsed.data[KeptUpTo(i)] =
                            ProcessRow(csv.data[i], i - 1, csv.fields, MapHeaders(csv.fields), zone, now).ticket
                ELSE WarnsRow(i, <<"M","i","s","s","i","n","g"," ","R","e","q","u","e","s","t"," ","T","i","m","e",","," ","s","k","i","p","p","i","n","g"," ","r","o","w">>)

C2_Witness ==
  /\ Returned /\ Len(csv.data) = 2
  /\ ~RowHasDate(1) /\ RowHasDate(2)
  /\ Len(parsed.data) = 1 /\ WarnsRow(1, <<"M","i","s","s","i","n","g"," ","R","e","q","u","e","s","t"," ","T","i","m","e">>)

\* C3: when the rows are read, a row with no ticket_id text and a parseable
\* request_time is kept with ticket_id AUTO-<digits>-<row>, row being the data
\* index + 2, and a warning of that row mentions "Missing Ticket ID"
C3_SurrogateTicketId ==
  (Returned /\ HasBothColumns /\ OnlyFieldCountErrors) =>
    \A i \in 1..Len(csv.data) :
      (~RowHasTicketId(i) /\ RowHasDate(i)) =>
        /\ KeptUpTo(i) \in 1..Len(parsed.data)
        /\ IsAutoId(parsed.data[KeptUpTo(i)].ticket_id, (i - 1) + 2)
        /\ WarnsRow(i, <<"M","i","s","s","i","n","g"," ","T","i","c","k","e","t"," ","I","D">>)

C3_Witness ==
  /\ Returned /\ Len(csv.data) = 2
  /\ ~RowHasTicketId(2) /\ RowHasDate(2) /\ RowHasDate(1)
  /\ Len(parsed.data) = 2 /\ IsAutoId(parsed.data[2].ticket_id, 3)

\* Every row has a ticket_id text and a parseable request_time
AllRowsValid ==
  /\ Returned /\ HasBothColumns
  /\ \A i \in 1..Len(csv.data) : RowHasTicketId(i) /\ RowHasDate(i)

\* Row i has nothing to warn about: every request_time cell that has text
\* parses and a priority cell that has text is recognised
RowClean(i) ==
  /\ \A c \in ColumnsFor("request_time") : CellText(i, c) = <<>> \/ c \in DateColumnsParsing(i)
  /\ \A c \in ColumnsFor("priority") : CellText(i, c) = <<>> \/ validatePriority(CellText(i, c)) # Undefined

\* One record per row, in row order, with the row's ticket_id and date
OneRecordPerRow ==
  /\ Len(parsed.data) = Len(csv.data)
  /\ \A i \in 1..Len(csv.data) :
       /\ parsed.data[i].ticket_id = RowTicketId(i)
       /\ parsed.data[i].request_time = RowDate(i)

\* C4 as stated: when every row has a parseable request_time and a non-empty
\* ticket_id, data has one record per row in row order with the row's
\* ticket_id and parsed request_time, and no warning is about any such row
C4_AsStated ==
  AllRowsValid =>
    /\ OneRecordPerRow
    /\ \A i \in 1..Len(csv.data) : ~WarnsRow(i, <<>>)

\* C4, amended: if moreover the tokenizer reported no error and no row has an
\* unparseable request_time cell or an unrecognised priority, data has one
\* record per row in row order with the row's ticket_id and parsed
\* request_time, and there is no error and no warning at all
C4_ValidRowsOneRecordEach ==
  (AllRowsValid /\ csv.errors = <<>> /\ \A i \in 1..Len(csv.data) : RowClean(i)) =>
    /\ OneRecordPerRow
    /\ (Len(csv.data) > 0 => parsed.errors = <<>>)
    /\ parsed.warnings = <<>>

C4_Witness ==
  /\ AllRowsValid /\ csv.errors = <<>> /\ Len(csv.data) = 2
  /\ \A i \in 1..Len(csv.data) : RowClean(i)
  /\ Len(parsed.data) = 2 /\ parsed.data[1] # parsed.data[2]

\* C5: parseExcelData always returns; when the tokenizer throws the result
\* has exactly one error, "Parse error: <message>", and no data
C5_NeverThrows ==
  phase = "parsed" =>
    /\ parsed.outcome = "returned"
    /\ csv.threw => /\ parsed.errors = <<<<"P","a","r","s","e"," ","e","r","r","o","r",":"," ">> \o csv.message>>
                    /\ parsed.data = <<>>

C5_Witness == phase = "parsed" /\ csv.threw /\ Len(parsed.errors) = 1

\* C6 as stated: with both required columns present every row with a
\* parseable request_time is returned in data, and the result is never errors
\* with no records
C6_AsStated ==
  (Returned /\ HasBothColumns) =>
    /\ Len(parsed.data) = KeptUpTo(Len(csv.data))
    /\ ~(Len(parsed.errors) > 0 /\ parsed.data = <<>>)

\* C6, amended: with both required columns present and no tokenizer error
\* other than field-count mismatches, every row with a parseable request_time
\* is returned in data, each field-count mismatch is a warning, and errors is
\* non-empty only when no row has a parseable request_time, the one error
\* then being "No valid ticket data found in the input"; any other tokenizer
\* error aborts the batch with errors and no data
C6_OnlyCriticalErrorsAbort ==
  (Returned /\ HasBothColumns) =>
    IF OnlyFieldCountErrors
      THEN /\ Len(parsed.data) = KeptUpTo(Len(csv.data))
           /\ \A i \in 1..Len(csv.data) : RowHasDate(i) => parsed.data[KeptUpTo(i)].request_time = RowDate(i)
           /\ parsed.errors = IF KeptUpTo(Len(csv.data)) = 0
                                THEN <<<<"N","o"," ","v","a","l","i","d"," ","t","i","c","k","e","t"," ","d","a","t","a"," ","f","o","u","n","d"," ","i","n"," ","t","h","e"," ","i","n","p","u","t">>>> ELSE <<>>
           /\ \A k \in 1..Len(csv.errors) :
                \E w \in 1..Len(parsed.warnings) : Includes(parsed.warnings[w], csv.errors[k].message)
      ELSE Len(parsed.errors) > 0 /\ parsed.data = <<>>

C6_Witness ==
  /\ Returned /\ HasBothColumns /\ OnlyFieldCountErrors
  /\ Len(csv.errors) > 0 /\ Len(csv.data) = 2
  /\ Cardinality(DOMAIN csv.data[1]) < Len(csv.fields) /\ RowHasDate(1) /\ ~RowHasDate(2)
  /\ Len(parsed.data) = 1 /\ parsed.errors = <<>>

----------------------------------------------------------------------------
(* SpecWeeks: calculateWeekNumbers applied to a batch, then to its result   *)

MaxTickets == 2

\* request_time values: absent (Undefined here), empty, no date at all, and
\* instants on the first, seventh or eighth, and tenth day
T_Day0 == <<"2","0","2","5","-","0","1","-","0","1","T","2","2",":","3","0",":","0","0",".","0","0","0","Z">>
T_Day6 == <<"2","0","2","5","-","0","1","-","0","8","T","0","2",":","0","0",":","0","0",".","0","0","0","Z">>
T_Day9 == <<"2","0","2","5","-","0","1","-","1","0","T","1","2",":","0","0",":","0","0",".","0","0","0","Z">>
T_Garbage == <<"g","a","r","b","a","g","e">>
RequestTimeValues == {Undefined, <<>>, T_Garbage, T_Day0, T_Day6, T_Day9}

\* week_label values: absent, blank, supplied by the caller
L_Blank == <<" "," ">>
L_Sprint == <<"S","p","r","i","n","t"," ","3">>
WeekLabelValues == {Undefined, L_Blank, L_Sprint}

\* The ticket with the given request_time and week_label; a labelled ticket
\* carries the caller's week_number 9
MakeTicket(rt, label) ==
  [k \in {"ticket_id"} \cup (IF rt = Undefined THEN {} ELSE {"request_time"})
         \cup (IF label = Undefined THEN {} ELSE {"week_label"})
         \cup (IF label = L_Sprint THEN {"week_number"} ELSE {})
     |-> CASE k = "ticket_id" -> <<"T","1">>
           [] k = "request_time" -> rt
           [] k = "week_label" -> label
           [] OTHER -> Num(9)]

TicketPool == {MakeTicket(rt, label) : rt \in RequestTimeValues, label \in WeekLabelValues}

InitWeeks ==
  /\ zone \in TimeZones
  /\ \E n \in 0..MaxTickets : tickets \in [1..n -> TicketPool]
  /\ weeks = <<>> /\ again = <<>>
  /\ phase = "batch"
  /\ ParseIdle /\ ImportIdle /\ CallIdle

\* calculateWeekNumbers(tickets)
CalculateWeekNumbers ==
  /\ phase = "batch"
  /\ weeks' = calculateWeekNumbers(tickets, zone)
  /\ phase' = "weeks"
  /\ UNCHANGED <<zone, parseVars, tickets, again, importVars, callVars>>

\* calculateWeekNumbers applied to the batch it returned
CalculateWeekNumbersAgain ==
  /\ phase = "weeks"
  /\ again' = calculateWeekNumbers(weeks, zone)
  /\ phase' = "again"
  /\ UNCHANGED <<zone, parseVars, tickets, weeks, importVars, callVars>>

NextWeeks == CalculateWeekNumbers \/ CalculateWeekNumbersAgain

SpecWeeks == InitWeeks /\ [][NextWeeks]_vars

----------------------------------------------------------------------------
(* Properties of calculateWeekNumbers, over SpecWeeks                       *)

Labelled == phase \in {"weeks", "again"}

\* The time value of ticket i's request_time, NaN when it is no date
TimeOf(i) == IF Falsy(tickets[i], "request_time") THEN NaN ELSE DateParse(tickets[i].request_time, zone)
HasDate(i) == ~IsNaN(TimeOf(i))

\* The local calendar day (days since 1970-01-01) an instant falls on
LocalDayOf(t) == t.day + ((t.sec + zone * 60) \div SecondsPerDay)

\* The local calendar day of the earliest request_time of the whole batch
AnchorDay == SetMin({LocalDayOf(TimeOf(j)[1]) : j \in {k \in 1..Len(tickets) : HasDate(k)}})

\* Whole days from the anchor to ticket i
DaysSinceAnchor(i) == LocalDayOf(TimeOf(i)[1]) - AnchorDay

\* C7 as stated: every record without a week_label whose request_time is a
\* date gets week_number floor(days since the anchor / 7) + 1, the anchor
\* being the start of the day of the earliest request_time of the whole
\* batch, and week_label "Week <week_number>"; the number is an integer >= 1,
\* 1 for days 0-6 and 2 for days 7-9
C7_AsStated ==
  Labelled =>
    /\ Len(weeks) = Len(tickets)
    /\ \A i \in 1..Len(tickets) :
         (NeedsWeek(tickets[i]) /\ HasDate(i)) =>
           /\ Has(weeks[i], "week_number") /\ Has(weeks[i], "week_label")
           /\ weeks[i].week_number = Num((DaysSinceAnchor(i) \div 7) + 1)
           /\ weeks[i].week_label = <<"W","e","e","k"," ">> \o NatToString((DaysSinceAnchor(i) \div 7) + 1)
           /\ (DaysSinceAnchor(i) \in 0..6 => weeks[i].week_number = Num(1))
           /\ (DaysSinceAnchor(i) \in 7..9 => weeks[i].week_number = Num(2))

\* C8: a record that has a non-blank week_label is returned as it was
\* supplied, and calculateWeekNumbers applied to its own result returns that
\* result
C8_LabelledUntouchedIdempotent ==
  /\ Labelled =>
       /\ Len(weeks) = Len(tickets)
       /\ \A i \in 1..Len(tickets) : ~NeedsWeek(tickets[i]) => weeks[i] = tickets[i]
  /\ phase = "again" => again = weeks

C8_Witness ==
  /\ phase = "again" /\ Len(tickets) = 2
  /\ ~NeedsWeek(tickets[1]) /\ Has(tickets[1], "request_time")
  /\ weeks[2] # tickets[2] /\ weeks[1] = tickets[1]
  /\ again = weeks

\* C9 as stated: an empty batch, and a batch none of whose records has a
\* request_time that is a date, is returned unchanged
C9_AsStated ==
  Labelled =>
    ((tickets = <<>> \/ \A i \in 1..Len(tickets) : ~HasDate(i)) => weeks = tickets)

----------------------------------------------------------------------------
(* SpecImport: DataImportView with a parsed batch on screen; the user       *)
(* clicks Import and Clear, and the server answers each request             *)

MaxFullChunks == 2
MaxClicks == 2

\* Batch lengths around the multiples of the chunk size
BatchLengths == {1} \cup UNION {{k * BatchSize - 1, k * BatchSize, k * BatchSize + 1} : k \in 1..MaxFullChunks}
Records(n) == [k \in 1..n |-> k]

\* What handleParse may have left in parsedResult
ParsedResults ==
  {NoResult, Result(<<>>, <<<<"N","o"," ","v","a","l","i","d"," ","t","i","c","k","e","t"," ","d","a","t","a"," ","f","o","u","n","d"," ","i","n"," ","t","h","e"," ","i","n","p","u","t">>>>)}
    \cup {Result(Records(n), <<>>) : n \in BatchLengths}

ImportNames == {<<>>, <<"J","a","n">>}
PastedTexts == {<<>>, <<"c","s","v">>}

InitImport ==
  /\ zone = 0
  /\ phase = "import"
  /\ \E pasted \in PastedTexts, name \in ImportNames, result \in ParsedResults :
       view = [pastedData |-> pasted, importName |-> name, parsedResult |-> result, importing |-> FALSE]
  /\ user \in BOOLEAN
  /\ run = NoRun
  /\ requests = <<>>
  /\ server = [imports |-> <<>>, tickets |-> <<>>]
  /\ notes = [toasts |-> <<>>, completed |-> 0]
  /\ ParseIdle /\ WeeksIdle /\ CallIdle

\* The for loop from its test of i on, reqs being the requests so far: the
\* next chunk is sent, or the success path runs
LoopFrom(importId, i, reqs) ==
  IF i < Len(run.data)
    THEN /\ run' = [run EXCEPT !.pc = "batch", !.importId = importId, !.i = i]
         /\ requests' = Append(reqs, Request("/tickets/batch", BatchBody(importId, run.data, i)))
         /\ UNCHANGED <<view, notes>>
    ELSE /\ run' = NoRun
         /\ requests' = reqs
         /\ view' = Succeeded(view)
         /\ notes' = [Toast(notes, "success") EXCEPT !.completed = @ + 1]

\* A click on Import without a signed-in user: the throw, catch and finally
HandleImportUnauthenticated ==
  /\ phase = "import" /\ CanImport /\ ~user
  /\ Len(notes.toasts) < MaxClicks
  /\ view' = Failed([view EXCEPT !.importing = TRUE])
  /\ notes' = Toast(notes, "error")
  /\ UNCHANGED <<zone, phase, parseVars, weekVars, callVars, user, run, requests, server>>

\* A click on Import: handleImport up to its first await
HandleImport ==
  /\ phase = "import" /\ CanImport /\ user
  /\ Len(notes.toasts) < MaxClicks
  /\ view' = [view EXCEPT !.importing = TRUE]
  /\ run' = [pc |-> "imports", data |-> view.parsedResult.data, importId |-> 0, i |-> 0]
  /\ requests' = Append(requests, Request("/imports", ImportBody(view.importName, view.parsedResult.data)))
  /\ UNCHANGED <<zone, phase, parseVars, weekVars, callVars, user, server, notes>>

\* POST /imports succeeds: the server has stored the import record under a
\* new id, and handleImport enters the loop
ImportCreated ==
  /\ run.pc = "imports"
  /\ server' = [server EXCEPT !.imports = Append(@, Len(@) + 1)]
  /\ LoopFrom(Len(server.imports) + 1, 0, Answered(requests, "ok"))
  /\ UNCHANGED <<zone, phase, parseVars, weekVars, callVars, user>>

\* POST /imports fails: catch and finally
ImportRejected ==
  /\ run.pc = "imports"
  /\ requests' = Answered(requests, "failed")
  /\ run' = NoRun
  /\ view' = Failed(view)
  /\ notes' = Toast(notes, "error")
  /\ UNCHANGED <<zone, phase, parseVars, weekVars, callVars, user, server>>

\* POST /tickets/batch succeeds: the server has stored the chunk, and the
\* loop goes on with i += batchSize
BatchStored ==
  /\ run.pc = "batch"
  /\ server' = [server EXCEPT !.tickets = Append(@, requests[Len(requests)].body)]
  /\ LoopFrom(run.importId, run.i + BatchSize, Answered(requests, "ok"))
  /\ UNCHANGED <<zone, phase, parseVars, weekVars, callVars, user>>

\* POST /tickets/batch fails: catch and finally
BatchRejected ==
  /\ run.pc = "batch"
  /\ requests' = Answered(requests, "failed")
  /\ run' = NoRun
  /\ view' = Failed(view)
  /\ notes' = Toast(notes, "error")
  /\ UNCHANGED <<zone, phase, parseVars, weekVars, callVars, user, server>>

\* A click on Clear, which is rendered while pastedData is not empty
HandleClear ==
  /\ phase = "import" /\ view.pastedData # <<>>
  /\ view' = [view EXCEPT !.pastedData = <<>>, !.parsedResult = NoResult]
  /\ UNCHANGED <<zone, phase, parseVars, weekVars, callVars, user, run, requests, server, notes>>

NextImport ==
  \/ HandleImportUnauthenticated
  \/ HandleImport
  \/ ImportCreated
  \/ ImportRejected
  \/ BatchStored
  \/ BatchRejected
  \/ HandleClear

SpecImport == InitImport /\ [][NextImport]_vars

----------------------------------------------------------------------------
(* Properties of handleImport, over SpecImport                              *)

\* The positions of the POST /imports requests, each of which opens a run
ImportsAt == {s \in 1..Len(requests) : requests[s].path = "/imports"}

\* The last request of the run opened at s
RunEnd(s) == IF \E t \in ImportsAt : t > s THEN SetMin({t \in ImportsAt : t > s}) - 1 ELSE Len(requests)

\* The id the server gave the import record created by request s
ImportIdOf(s) == Cardinality({t \in ImportsAt : t <= s /\ requests[t].status = "ok"})

\* The records from..to of a batch
RecordsFromTo(from, to) == [k \in 1..(to - from + 1) |-> from + k - 1]

\* The c-th chunk of a batch of n records
ChunkOf(n, c) == RecordsFromTo((c - 1) * BatchSize + 1, IF c * BatchSize < n THEN c * BatchSize ELSE n)

\* The run opened at s has sent every record and its last request succeeded
RunCompleted(s) ==
  /\ (RunEnd(s) - s) * BatchSize >= requests[s].body.total_records
  /\ requests[RunEnd(s)].status = "ok"

\* C10: the first request of a run creates the import record; every chunk is
\* sent after the request before it has succeeded, carries the id of that
\* import record and holds the next records of the batch, at most 500 and
\* exactly 500 unless it is the last; no two requests are pending at once;
\* and the runs that finished with success are those that sent the batch whole
C10_SequentialChunks ==
  /\ requests # <<>> => requests[1].path = "/imports"
  /\ \A j \in 1..(Len(requests) - 1) : requests[j].status # "pending"
  /\ \A s \in ImportsAt :
       /\ requests[s].body.total_records > 0
       /\ \A j \in (s + 1)..RunEnd(s) :
            /\ requests[j].path = "/tickets/batch"
            /\ requests[j - 1].status = "ok"
            /\ requests[j].body.import_id = ImportIdOf(s)
            /\ (j - s - 1) * BatchSize < requests[s].body.total_records
            /\ requests[j].body.tickets = ChunkOf(requests[s].body.total_records, j - s)
            /\ Len(requests[j].body.tickets) \in 1..BatchSize
            /\ (j < RunEnd(s) => Len(requests[j].body.tickets) = BatchSize)
  /\ notes.completed = Cardinality({s \in ImportsAt : RunCompleted(s)})
  /\ run.pc # "idle" => /\ requests[Len(requests)].status = "pending"
                        /\ run.data = Records(requests[SetMax(ImportsAt)].body.total_records)

C10_Witness ==
  /\ notes.completed = 1
  /\ Len(requests) = 4 /\ requests[1].body.total_records = 2 * BatchSize + 1
  /\ Len(requests[2].body.tickets) = BatchSize /\ Len(requests[4].body.tickets) = 1
  /\ server.tickets = <<requests[2].body, requests[3].body, requests[4].body>>

\* The chunk requests that succeeded, in send order
RECURSIVE StoredBodies(_)
StoredBodies(reqs) ==
  IF reqs = <<>> THEN <<>>
  ELSE (IF Head(reqs).path = "/tickets/batch" /\ Head(reqs).status = "ok" THEN <<Head(reqs).body>> ELSE <<>>)
       \o StoredBodies(Tail(reqs))

\* The step in which the pending chunk request fails
ChunkFails ==
  /\ run.pc = "batch"
  /\ Len(requests') = Len(requests)
  /\ requests'[Len(requests)].status = "failed"

\* C11: when the request for a chunk fails, the server keeps the import
\* record and the chunks stored before it, the form is not reset and
\* onImportComplete is not called, an error is reported and importing is
\* false again; no chunk follows a failed request (the next request, if any,
\* opens a new import), and the server holds exactly the chunks whose
\* requests succeeded
C11_FailedChunkAbortsWithoutRollback ==
  /\ [][ChunkFails =>
          /\ view.importing /\ view' = [view EXCEPT !.importing = FALSE]
          /\ server' = server
          /\ notes' = [notes EXCEPT !.toasts = Append(@, "error")]
          /\ run'.pc = "idle"]_vars
  /\ [](/\ \A j \in 1..(Len(requests) - 1) :
             requests[j].status = "failed" => requests[j + 1].path = "/imports"
        /\ server.tickets = StoredBodies(requests)
        /\ Len(server.imports) = Cardinality({s \in ImportsAt : requests[s].status = "ok"})
        /\ (requests # <<>> /\ requests[Len(requests)].status = "failed") =>
             (run.pc = "idle" /\ ~view.importing /\ trim(view.importName) # <<>>))

\* The second of three chunks has failed
C11_Witness ==
  /\ Len(requests) = 3 /\ requests[3].status = "failed"
  /\ requests[1].body.total_records = 2 * BatchSize + 1
  /\ server.tickets = <<requests[2].body>> /\ server.imports = <<1>>
  /\ ~view.importing /\ notes.completed = 0 /\ view.parsedResult.present

----------------------------------------------------------------------------
(* SpecDates: parseDate applied to one text, or to the four spellings of    *)
(* one calendar day                                                         *)

FirstNumerals == {<<"0","1">>, <<"0","5">>, <<"1","2">>, <<"1","3">>, <<"1","5">>, <<"3","1">>, <<"3","2">>}
SecondNumerals == {<<"0","1">>, <<"0","2">>, <<"1","2">>, <<"1","3">>, <<"1","5">>}

\* A<sep>B<sep>2025 for each pair of numerals and each separator
NumericDateTexts ==
  {a \o <<sep>> \o b \o <<sep>> \o <<"2","0","2","5">> : a \in FirstNumerals, b \in SecondNumerals, sep \in DateSeparators}

\* Year-first and named-month dates, a date with a time, serial numbers, and
\* texts that are no date
OtherDateTexts ==
  {<<"2","0","2","5","-","0","1","-","1","5">>, <<"2","0","2","5","/","0","1","/","1","5">>, <<"2","0","2","5",".","0","1",".","1","5">>, <<"1","5"," ","J","a","n"," ","2","0","2","5">>, <<"J","a","n"," ","1","5",","," ","2","0","2","5">>,
   <<"1","5","-","J","a","n","u","a","r","y","-","2","0","2","5">>, <<"1","5","/","0","1","/","2","0","2","5"," ","1","4",":","3","0">>, <<" ","1","5","/","0","1","/","2","0","2","5"," ">>, <<"2","0","2","5","-","0","1","-","1","5","T","1","0",":","3","0",":","0","0",".","0","0","0","Z">>,
   <<"4","5","6","7","2">>, <<"4","5","6","7","2",".","5">>, <<"0">>, <<"9","9","9","9","9">>, <<"1","0","0","0","0","0">>, <<"-","5">>, <<"1","2","a","b","c">>, <<"3"," ","a","p","p","l","e","s">>,
   <<"a","b","c">>, <<"n","/","a">>, <<>>}

CalendarDays ==
  {[year |-> 2025, month |-> 1, day |-> 15], [year |-> 2025, month |-> 1, day |-> 5],
   [year |-> 2024, month |-> 2, day |-> 29], [year |-> 2025, month |-> 12, day |-> 31],
   [year |-> 2025, month |-> 3, day |-> 9]}

MonthAbbreviations == <<<<"J","a","n">>, <<"F","e","b">>, <<"M","a","r">>, <<"A","p","r">>, <<"M","a","y">>, <<"J","u","n">>,
                        <<"J","u","l">>, <<"A","u","g">>, <<"S","e","p">>, <<"O","c","t">>, <<"N","o","v">>, <<"D","e","c">>>>

\* DD/MM/YYYY, YYYY-MM-DD, D Mon YYYY and Mon D, YYYY of a calendar day
Spellings(d) ==
  << Pad(d.day, 2) \o <<"/">> \o Pad(d.month, 2) \o <<"/">> \o NatToString(d.year),
     NatToString(d.year) \o <<"-">> \o Pad(d.month, 2) \o <<"-">> \o Pad(d.day, 2),
     NatToString(d.day) \o <<" ">> \o MonthAbbreviations[d.month] \o <<" ">> \o NatToString(d.year),
     MonthAbbreviations[d.month] \o <<" ">> \o NatToString(d.day) \o <<","," ">> \o NatToString(d.year) >>

InitDates ==
  /\ zone \in TimeZones
  /\ phase = "call"
  /\ \/ \E s \in NumericDateTexts \cup OtherDateTexts : callArg = [kind |-> "text", text |-> s]
     \/ \E d \in CalendarDays : callArg = [kind |-> "day", spellings |-> Spellings(d), date |-> d]
  /\ callResult = NotReturned
  /\ ParseIdle /\ WeeksIdle /\ ImportIdle

\* parseDate(text)
ParseDate ==
  /\ phase = "call" /\ callArg.kind = "text"
  /\ callResult' = [returned |-> TRUE, value |-> parseDate(callArg.text, zone)]
  /\ phase' = "returned"
  /\ UNCHANGED <<zone, parseVars, weekVars, importVars, callArg>>

\* parseDate of each of the four spellings
ParseDateSpellings ==
  /\ phase = "call" /\ callArg.kind = "day"
  /\ callResult' = [returned |-> TRUE,
                    values |-> [k \in 1..4 |-> parseDate(callArg.spellings[k], zone)]]
  /\ phase' = "returned"
  /\ UNCHANGED <<zone, parseVars, weekVars, importVars, callArg>>

NextDates == ParseDate \/ ParseDateSpellings

SpecDates == InitDates /\ [][NextDates]_vars

----------------------------------------------------------------------------
(* Properties of parseDate, over SpecDates                                  *)

ParsedText == phase = "returned" /\ callArg.kind = "text"
ParsedSpellings == phase = "returned" /\ callArg.kind = "day"

\* The date part YYYY-MM-DD of an ISO string
IsoDatePart(iso) == SubSeq(iso, 1, 10)

\* The local calendar date [year, month, day] of the instant an ISO string names
LocalDateOf(iso) == CivilFromDays(LocalDayOf(DateParse(iso, zone)[1]))

\* C12 as stated: the four spellings of one calendar day are parsed to ISO
\* strings with the same date
C12_AsStated ==
  ParsedSpellings =>
    /\ \A k \in 1..4 : callResult.values[k] # Null
    /\ \A k \in 2..4 : IsoDatePart(callResult.values[k]) = IsoDatePart(callResult.values[1])

\* The text as the numeric pattern A<sep>B<sep>YYYY reads it
Numeric == MatchNumericDayFirst(trim(callArg.text))

\* C13 as stated: for A <= 12 and B <= 12, A/B/YYYY is day A of month B
C13_AsStated ==
  (ParsedText /\ Numeric.ok /\ Numeric.a \in 1..12 /\ Numeric.b \in 1..12) =>
    /\ callResult.value # Null
    /\ LocalDateOf(callResult.value) = [year |-> Numeric.year, month |-> Numeric.b, day |-> Numeric.a]

\* The text reaches the numeric strategy: new Date(text) is an Invalid Date
\* and the numeric pattern matches
ReachesNumericStrategy == ParsedText /\ Numeric.ok /\ IsNaN(DateParse(trim(callArg.text), zone))

ValidDayOfMonth(year, month, day) == month \in 1..12 /\ day >= 1 /\ day <= DaysInMonth(year, month)

\* The numeric strategy returns a date: one of its two constructions is made
NumericStrategyReturns ==
  \/ Numeric.a <= 31 /\ Numeric.b <= 12
  \/ Numeric.a > 12 /\ Numeric.b <= 31

\* C14 as stated: when the day-first reading of A/B/YYYY is no valid day and
\* month and the month-first reading is, the numeric strategy returns day B
\* of month A; and a date the numeric strategy returns always has the
\* numerals of the text as its day and month
C14_AsStated ==
  ReachesNumericStrategy =>
    /\ (~ValidDayOfMonth(Numeric.year, Numeric.b, Numeric.a) /\ ValidDayOfMonth(Numeric.year, Numeric.a, Numeric.b)) =>
         /\ NumericStrategyReturns
         /\ LocalDateOf(callResult.value) = [year |-> Numeric.year, month |-> Numeric.a, day |-> Numeric.b]
    /\ NumericStrategyReturns =>
         \/ /\ LocalDateOf(callResult.value).day = Numeric.a
            /\ LocalDateOf(callResult.value).month = Numeric.b
         \/ /\ LocalDateOf(callResult.value).day = Numeric.b
            /\ LocalDateOf(callResult.value).month = Numeric.a

\* The text is of none of the date formats: new Date(text) is an Invalid Date
\* and no pattern of parseDate matches it
OfNoDateFormat ==
  /\ IsNaN(DateParse(trim(callArg.text), zone))
  /\ ~Numeric.ok
  /\ ~MatchYearFirst(trim(callArg.text), FALSE).ok
  /\ ~MatchDayMonthName(trim(callArg.text)).ok
  /\ ~MatchMonthNameDay(trim(callArg.text)).ok

\* digits, optionally followed by a point and digits: the whole of s is a number
IsDecimalNumber(s) ==
  /\ Run(s, 1, DigitChars) >= 1
  /\ \/ Run(s, 1, DigitChars) = Len(s)
     \/ /\ StartsAt(s, Run(s, 1, DigitChars) + 1, <<".">>)
        /\ Run(s, Run(s, 1, DigitChars) + 2, DigitChars) = Len(s) - Run(s, 1, DigitChars) - 1
        /\ Len(s) > Run(s, 1, DigitChars) + 1

\* The whole of s is a number strictly between 0 and 100000
IsSerialNumber(s) ==
  /\ IsDecimalNumber(s)
  /\ DigitsValue(s, 1, Run(s, 1, DigitChars)) < 100000
  /\ \E i \in 1..Len(s) : s[i] \in DigitChars \ {"0"}

\* C15 as stated: a text of none of the date formats is parsed only if the
\* whole of it is a number strictly between 0 and 100000, and gives null
\* otherwise
C15_AsStated ==
  (ParsedText /\ OfNoDateFormat) =>
    (callResult.value # Null <=> IsSerialNumber(trim(callArg.text)))

----------------------------------------------------------------------------
(* SpecPriority: validatePriority applied to one text, and parseExcelData   *)
(* applied to one row whose Priority cell is that text                      *)

PriorityLeads == {<<>>, <<" ">>, <<"I","s"," ">>}
PriorityTrails == {<<>>, <<" ","i","s","s","u","e">>}
PriorityWords ==
  {<<"P","1">>, <<"p","2">>, <<"P","3">>, <<"P","4">>, <<"P","5">>, <<"P","0">>, <<"p"," ","1">>, <<"1">>, <<>>,
   <<"c","r","i","t","i","c","a","l">>, <<"H","i","g","h">>, <<"M","E","D","I","U","M">>, <<"l","o","w">>, <<"U","r","g","e","n","t">>, <<"n","o","r","m","a","l">>, <<"h","i","g","h","e","s","t">>,
   <<"r","a","n","d","o","m"," ","t","e","x","t">>, <<"P","1"," ","C","r","i","t","i","c","a","l">>, <<"P","4"," ","L","o","w">>, <<"M","e","d","i","u","m","-","L","o","w">>, <<"l","o","w"," ","h","i","g","h">>,
   <<"u","r","g","e","n","t"," ","p","3">>, <<"P","5"," ","P","2"," ","P","1">>}
PriorityTexts == {l \o w \o t : l \in PriorityLeads, w \in PriorityWords, t \in PriorityTrails}

\* One data row with a ticket id, a request time and the priority text
PriorityRow(text) ==
  [h \in {H_TicketId, H_RequestTime, H_Priority} |->
     IF h = H_TicketId THEN <<"T","1">> ELSE IF h = H_RequestTime THEN <<"2","0","2","5","-","0","1","-","1","5">> ELSE text]

InitPriority ==
  /\ zone \in TimeZones
  /\ phase = "call"
  /\ \E text \in PriorityTexts :
       /\ callArg = [kind |-> "priority", text |-> text]
       /\ csv = PapaReturned(<<H_TicketId, H_RequestTime, H_Priority>>, <<PriorityRow(text)>>, <<>>)
  /\ callResult = NotReturned
  /\ parsed = NotCalled
  /\ WeeksIdle /\ ImportIdle

\* validatePriority(text); the row is parsed next
ValidatePriority ==
  /\ phase = "call" /\ callArg.kind = "priority"
  /\ callResult' = [returned |-> TRUE, value |-> validatePriority(callArg.text)]
  /\ phase' = "input"
  /\ UNCHANGED <<zone, parseVars, weekVars, importVars, callArg>>

NextPriority == ValidatePriority \/ ParseExcelData

SpecPriority == InitPriority /\ [][NextPriority]_vars

----------------------------------------------------------------------------
(* Properties of validatePriority, over SpecPriority                        *)

\* The positions of normalized where one of P1..P4 starts
TokensAt(normalized) == {i \in 1..(Len(normalized) - 1) : SubSeq(normalized, i, i + 1) \in PriorityCodes}

\* The code the words of normalized stand for, in the order CRITICAL, HIGH,
\* MEDIUM, LOW, URGENT, NORMAL
WordPriority(normalized) ==
  IF Includes(normalized, <<"C","R","I","T","I","C","A","L">>) THEN <<"P","1">>
  ELSE IF Includes(normalized, <<"H","I","G","H">>) THEN <<"P","2">>
  ELSE IF Includes(normalized, <<"M","E","D","I","U","M">>) THEN <<"P","3">>
  ELSE IF Includes(normalized, <<"L","O","W">>) THEN <<"P","4">>
  ELSE IF Includes(normalized, <<"U","R","G","E","N","T">>) THEN <<"P","1">>
  ELSE IF Includes(normalized, <<"N","O","R","M","A","L">>) THEN <<"P","3">>
  ELSE Undefined

ExpectedPriority(normalized) ==
  IF normalized \in PriorityCodes THEN normalized
  ELSE IF TokensAt(normalized) # {}
    THEN SubSeq(normalized, SetMin(TokensAt(normalized)), SetMin(TokensAt(normalized)) + 1)
  ELSE WordPriority(normalized)

\* C16: validatePriority returns the trimmed, upper-cased text when it is one
\* of P1..P4, else its first embedded P1..P4, else the code of the first of
\* CRITICAL, HIGH, MEDIUM, LOW, URGENT, NORMAL it contains, else undefined;
\* and the priority of every parsed record is absent (undefined) or one of
\* the four codes, namely what validatePriority returns for the cell
C16_PriorityIsCodeOrUndefined ==
  /\ callResult.returned =>
       /\ callResult.value = ExpectedPriority(trim(toUpperCase(callArg.text)))
       /\ callResult.value \in PriorityCodes \cup {Undefined}
  /\ phase = "parsed" =>
       \A i \in 1..Len(parsed.data) :
         \/ ~Has(parsed.data[i], "priority")
         \/ /\ parsed.data[i]["priority"] \in PriorityCodes \cup {Undefined}
            /\ parsed.data[i]["priority"] = callResult.value

C16_Witness ==
  /\ phase = "parsed"
  /\ callArg.text = <<"I","s"," ","M","e","d","i","u","m","-","L","o","w"," ","i","s","s","u","e">>
  /\ callResult.value = <<"P","3">>
  /\ Len(parsed.data) = 1 /\ parsed.data[1]["priority"] = <<"P","3">>

----------------------------------------------------------------------------
(* Breakdowns of TrendAnalyticsDashboard                                    *)
(*                                                                          *)
(* A breakdown is a sequence of { category, count, percentage }; the        *)
(* percentage count / total * 100 is kept exact as [num, den].              *)

\* ticket[field] || label
ValueOrDefault(ticket, field, label) == IF Falsy(ticket, field) THEN label ELSE ticket[field]

\* map.set(cat, (map.get(cat) || 0) + 1) on the entries of a Map, which keeps
\* its keys in the order they were first set
Count(entries, cat) ==
  IF \E i \in 1..Len(entries) : entries[i].category = cat
    THEN [i \in 1..Len(entries) |->
            IF entries[i].category = cat THEN [entries[i] EXCEPT !.count = @ + 1] ELSE entries[i]]
    ELSE Append(entries, [category |-> cat, count |-> 1])

\* Variant: tickets without a value are not counted
RECURSIVE CountPresentByValue(_, _, _)
CountPresentByValue(data, field, label) ==
  IF data = <<>> THEN <<>>
  ELSE IF Falsy(data[Len(data)], field) THEN CountPresentByValue(SubSeq(data, 1, Len(data) - 1), field, label)
  ELSE Count(CountPresentByValue(SubSeq(data, 1, Len(data) - 1), field, label), data[Len(data)][field])

\* data.forEach(ticket => ...): the entries of the Map after the loop
RECURSIVE CountByValue(_, _, _)
CountByValue(data, field, label) ==
  IF data = <<>> THEN <<>>
  ELSE Count(CountByValue(SubSeq(data, 1, Len(data) - 1), field, label),
             ValueOrDefault(data[Len(data)], field, label))

\* total > 0 ? (count / total) * 100 : 0
Percentage(count, total) == IF total > 0 THEN [num |-> count * 100, den |-> total] ELSE [num |-> 0, den |-> 1]

\* Array.from(map.entries()).map(([category, count]) => ({ ... }))
BreakdownOf(entries, total) ==
  [i \in 1..Len(entries) |->
     [category |-> entries[i].category, count |-> entries[i].count,
      percentage |-> Percentage(entries[i].count, total)]]

\* Array.prototype.sort with a comparator that is the difference of two keys:
\* ascending by key, elements of equal key in their former order
InsertByKey(sorted, e) ==
  SubSeq(sorted, 1, Cardinality({i \in 1..Len(sorted) : sorted[i].key <= e.key})) \o <<e>>
    \o SubSeq(sorted, Cardinality({i \in 1..Len(sorted) : sorted[i].key <= e.key}) + 1, Len(sorted))

RECURSIVE SortKeyed(_)
SortKeyed(keyed) ==
  IF keyed = <<>> THEN <<>>
  ELSE InsertByKey(SortKeyed(SubSeq(keyed, 1, Len(keyed) - 1)), keyed[Len(keyed)])

Items(keyed) == [i \in 1..Len(keyed) |-> keyed[i].item]

\* Variant: .sort((a, b) => a.count - b.count)
SortByCountAscending(breakdown) ==
  Items(SortKeyed([i \in 1..Len(breakdown) |-> [key |-> breakdown[i].count, item |-> breakdown[i]]]))

\* .sort((a, b) => b.count - a.count)
SortByCount(breakdown) ==
  Items(SortKeyed([i \in 1..Len(breakdown) |-> [key |-> 0 - breakdown[i].count, item |-> breakdown[i]]]))

\* order.indexOf(category)
PriorityOrder == <<<<"P","1">>, <<"P","2">>, <<"P","3">>, <<"P","4">>, <<"U","n","a","s","s","i","g","n","e","d">>>>
IndexOf(order, x) == IF \E i \in 1..Len(order) : order[i] = x THEN SetMin({i \in 1..Len(order) : order[i] = x}) - 1 ELSE 0 - 1

\* .sort((a, b) => order.indexOf(a.category) - order.indexOf(b.category))
SortByPriority(breakdown) ==
  Items(SortKeyed([i \in 1..Len(breakdown) |->
                     [key |-> IndexOf(PriorityOrder, breakdown[i].category), item |-> breakdown[i]]]))

AffiliateLimit == 15
RecordTypeLimit == 10
SupportGroupLimit == 10
InitiatorLimit == 10

calculateCategoryBreakdown(data) ==
  SortByCount(BreakdownOf(CountByValue(data, "third_lvl_category", <<"U","n","c","a","t","e","g","o","r","i","z","e","d">>), Len(data)))
calculatePriorityBreakdown(data) ==
  SortByPriority(BreakdownOf(CountByValue(data, "priority", <<"U","n","a","s","s","i","g","n","e","d">>), Len(data)))
calculateStatusBreakdown(data) ==
  SortByCount(BreakdownOf(CountByValue(data, "status", <<"U","n","k","n","o","w","n">>), Len(data)))
calculateClusterBreakdown(data) ==
  SortByCount(BreakdownOf(CountByValue(data, "cluster", <<"U","n","a","s","s","i","g","n","e","d">>), Len(data)))
calculateAffiliateBreakdown(data) ==
  Slice(SortByCount(BreakdownOf(CountByValue(data, "affiliate", <<"U","n","a","s","s","i","g","n","e","d">>), Len(data))), 0, AffiliateLimit)
calculateRecordTypeBreakdown(data) ==
  Slice(SortByCount(BreakdownOf(CountByValue(data, "service_record_type", <<"U","n","k","n","o","w","n">>), Len(data))), 0, RecordTypeLimit)
calculateSupportGroupBreakdown(data) ==
  Slice(SortByCount(BreakdownOf(CountByValue(data, "support_group", <<"U","n","a","s","s","i","g","n","e","d">>), Len(data))), 0, SupportGroupLimit)
calculateInitiatorBreakdown(data) ==
  Slice(SortByCount(BreakdownOf(CountByValue(data, "initiator", <<"U","n","k","n","o","w","n">>), Len(data))), 0, InitiatorLimit)

----------------------------------------------------------------------------
(* SpecBreakdowns: the breakdowns of one list of tickets                    *)

MaxListed == 18

DimensionFields ==
  {"third_lvl_category", "priority", "status", "cluster", "affiliate", "service_record_type",
   "support_group", "initiator"}

\* The value, 1..k or 0 for none, of ticket i of a list with k distinct
\* values: the values in rotation, each value once and then the last one
\* again, or the rotation with every third ticket lacking the value
Shapes == {"rotation", "tail", "gaps"}
ValueIndex(shape, k, i) ==
  CASE shape = "rotation" -> ((i - 1) % k) + 1
    [] shape = "tail" -> IF i <= k THEN i ELSE k
    [] shape = "gaps" -> IF i % 3 = 0 THEN 0 ELSE ((i - 1) % k) + 1

PriorityValues == <<<<"P","3">>, <<"P","1">>, <<"P","4">>, <<"P","2">>>>
ValueText(field, j) ==
  IF field = "priority" THEN PriorityValues[((j - 1) % 4) + 1] ELSE <<"v">> \o NatToString(j)

\* A ticket whose dimensions all have value j; a ticket without the value
\* has the fields null, empty or not at all
ListedTicket(i, j) ==
  [f \in {"ticket_id"} \cup (IF j = 0 /\ i % 9 = 0 THEN {} ELSE DimensionFields) |->
     IF f = "ticket_id" THEN <<"T">> \o NatToString(i)
     ELSE IF j = 0 THEN (IF i % 2 = 0 THEN Null ELSE <<>>)
     ELSE ValueText(f, j)]

InitBreakdowns ==
  /\ zone = 0
  /\ phase = "loaded"
  /\ \E n \in 0..MaxListed, k \in 1..MaxListed, shape \in Shapes :
       /\ k <= n \/ k = 1
       /\ tickets = [i \in 1..n |-> ListedTicket(i, ValueIndex(shape, k, i))]
  /\ weeks = <<>> /\ again = <<>>
  /\ callArg = [kind |-> "tickets"]
  /\ callResult = NotReturned
  /\ ParseIdle /\ ImportIdle

\* The calculate...Breakdown(ticketData) calls of loadAnalyticsData
CalculateBreakdowns ==
  /\ phase = "loaded"
  /\ callResult' = [returned |-> TRUE,
                    categoryBreakdown |-> calculateCategoryBreakdown(tickets),
                    priorityBreakdown |-> calculatePriorityBreakdown(tickets),
                    statusBreakdown |-> calculateStatusBreakdown(tickets),
                    clusterBreakdown |-> calculateClusterBreakdown(tickets),
                    affiliateBreakdown |-> calculateAffiliateBreakdown(tickets),
                    recordTypeBreakdown |-> calculateRecordTypeBreakdown(tickets),
                    supportGroupBreakdown |-> calculateSupportGroupBreakdown(tickets),
                    initiatorBreakdown |-> calculateInitiatorBreakdown(tickets)]
  /\ phase' = "shown"
  /\ UNCHANGED <<zone, parseVars, weekVars, importVars, callArg>>

\* openDrillDown(type, item): the tickets of the modal
openDrillDown(data, type, item) ==
  SelectSeq(data, LAMBDA ticket :
    CASE type = "priority" -> ValueOrDefault(ticket, "priority", <<"U","n","a","s","s","i","g","n","e","d">>) = item
      [] type = "category" -> ValueOrDefault(ticket, "third_lvl_category", <<"U","n","k","n","o","w","n">>) = item
      [] type = "status" -> ValueOrDefault(ticket, "status", <<"U","n","k","n","o","w","n">>) = item
      [] OTHER -> FALSE)

\* The breakdown whose items open a drill-down of the type
DrillDownBreakdown(type) ==
  CASE type = "priority" -> "priorityBreakdown"
    [] type = "category" -> "categoryBreakdown"
    [] type = "status" -> "statusBreakdown"

\* A click on an item listed in the category, priority or status breakdown
OpenDrillDown ==
  /\ phase = "shown" /\ callArg.kind = "tickets"
  /\ \E type \in {"priority", "category", "status"} : \E i \in 1..Len(callResult[DrillDownBreakdown(type)]) :
       /\ callArg' = [kind |-> "drill", type |-> type, listed |-> callResult[DrillDownBreakdown(type)][i]]
       /\ callResult' = [f \in DOMAIN callResult \cup {"drillDownModal"} |->
                           IF f = "drillDownModal"
                             THEN [type |-> type, item |-> callResult[DrillDownBreakdown(type)][i].category,
                                   tickets |-> openDrillDown(tickets, type, callResult[DrillDownBreakdown(type)][i].category)]
                             ELSE callResult[f]]
  /\ phase' = "drill"
  /\ UNCHANGED <<zone, parseVars, weekVars, importVars>>

NextBreakdowns == CalculateBreakdowns \/ OpenDrillDown

SpecBreakdowns == InitBreakdowns /\ [][NextBreakdowns]_vars

----------------------------------------------------------------------------
(* Properties of the breakdowns, over SpecBreakdowns                        *)

\* The state variable, the ticket field, the label of tickets without a
\* value and the length limit (0: none) of each breakdown
CountSortedBreakdowns ==
  {[name |-> "categoryBreakdown", field |-> "third_lvl_category", label |-> <<"U","n","c","a","t","e","g","o","r","i","z","e","d">>, limit |-> 0],
   [name |-> "statusBreakdown", field |-> "status", label |-> <<"U","n","k","n","o","w","n">>, limit |-> 0],
   [name |-> "clusterBreakdown", field |-> "cluster", label |-> <<"U","n","a","s","s","i","g","n","e","d">>, limit |-> 0],
   [name |-> "affiliateBreakdown", field |-> "affiliate", label |-> <<"U","n","a","s","s","i","g","n","e","d">>, limit |-> AffiliateLimit],
   [name |-> "recordTypeBreakdown", field |-> "service_record_type", label |-> <<"U","n","k","n","o","w","n">>, limit |-> RecordTypeLimit],
   [name |-> "supportGroupBreakdown", field |-> "support_group", label |-> <<"U","n","a","s","s","i","g","n","e","d">>, limit |-> SupportGroupLimit],
   [name |-> "initiatorBreakdown", field |-> "initiator", label |-> <<"U","n","k","n","o","w","n">>, limit |-> InitiatorLimit]}
AllBreakdowns ==
  CountSortedBreakdowns \cup {[name |-> "priorityBreakdown", field |-> "priority", label |-> <<"U","n","a","s","s","i","g","n","e","d">>, limit |-> 0]}

Shown == phase = "shown" /\ callArg.kind = "tickets"

\* The category ticket i falls in, and the tickets of a category
CategoryOf(i, d) == ValueOrDefault(tickets[i], d.field, d.label)
TicketsOf(c, d) == {i \in 1..Len(tickets) : CategoryOf(i, d) = c}
CategoriesOf(d) == {CategoryOf(i, d) : i \in 1..Len(tickets)}
ReturnedCategories(d) == {callResult[d.name][i].category : i \in 1..Len(callResult[d.name])}

RECURSIVE SumOfCounts(_)
SumOfCounts(breakdown) == IF breakdown = <<>> THEN 0 ELSE breakdown[1].count + SumOfCounts(Tail(breakdown))

\* The percentages of a breakdown add up to 100: they are fractions of the
\* number of tickets whose numerators add up to 100 times that number
SumsTo100(breakdown) ==
  /\ \A i \in 1..Len(breakdown) :
       /\ breakdown[i].percentage.den = Len(tickets)
       /\ breakdown[i].percentage.num = 100 * breakdown[i].count
  /\ 100 * SumOfCounts(breakdown) = 100 * Len(tickets)

\* C17 as stated: for a non-empty ticket list the percentages of every
\* breakdown sum to 100
C17_AsStated ==
  (Shown /\ tickets # <<>>) => \A d \in AllBreakdowns : SumsTo100(callResult[d.name])

\* C17: for a non-empty ticket list the counts of the returned categories of
\* every breakdown sum to the number of tickets that fall in a returned
\* category; the percentages sum to 100 for the category, priority, status
\* and cluster breakdowns, and for a truncated breakdown exactly when the
\* tickets have no more distinct values than its limit
C17_PercentagesSumOverReturned ==
  (Shown /\ tickets # <<>>) =>
    \A d \in AllBreakdowns :
      /\ SumOfCounts(callResult[d.name]) = Cardinality({i \in 1..Len(tickets) : CategoryOf(i, d) \in ReturnedCategories(d)})
      /\ (d.limit = 0 \/ Cardinality(CategoriesOf(d)) <= d.limit) => SumsTo100(callResult[d.name])
      /\ (d.limit > 0 /\ Cardinality(CategoriesOf(d)) > d.limit) => ~SumsTo100(callResult[d.name])

C17_Witness ==
  /\ Shown /\ Len(tickets) = 18
  /\ SumsTo100(callResult.categoryBreakdown) /\ Len(callResult.categoryBreakdown) = 17
  /\ ~SumsTo100(callResult.affiliateBreakdown) /\ Len(callResult.affiliateBreakdown) = AffiliateLimit
  /\ SumOfCounts(callResult.affiliateBreakdown) = 16

\* c1 comes before c2: it has more tickets, or as many and an earlier first one
Precedes(c1, c2, d) ==
  \/ Cardinality(TicketsOf(c1, d)) > Cardinality(TicketsOf(c2, d))
  \/ /\ Cardinality(TicketsOf(c1, d)) = Cardinality(TicketsOf(c2, d))
     /\ SetMin(TicketsOf(c1, d)) < SetMin(TicketsOf(c2, d))

OrderedByCount(breakdown, d) ==
  /\ \A i \in 1..Len(breakdown) :
       /\ breakdown[i].category \in CategoriesOf(d)
       /\ breakdown[i].count = Cardinality(TicketsOf(breakdown[i].category, d))
  /\ \A i \in 1..Len(breakdown), j \in 1..Len(breakdown) :
       i < j => /\ breakdown[i].count >= breakdown[j].count
                /\ Precedes(breakdown[i].category, breakdown[j].category, d)
  /\ \A c \in CategoriesOf(d) \ ReturnedCategories(d) :
       \A i \in 1..Len(breakdown) : Precedes(breakdown[i].category, c, d)
  /\ Len(breakdown) = IF d.limit > 0 /\ Cardinality(CategoriesOf(d)) > d.limit
                        THEN d.limit ELSE Cardinality(CategoriesOf(d))

\* C18: every breakdown sorted by count lists its categories by
\* non-increasing count, categories of equal count in the order of their
\* first ticket; each count is the number of tickets of the category, a
\* ticket without a value counting for the label; and a truncated
\* breakdown is the first N entries of that order
C18_SortedByCountThenFirstOccurrence ==
  Shown => \A d \in CountSortedBreakdowns : OrderedByCount(callResult[d.name], d)

C18_Witness ==
  /\ Shown /\ Len(tickets) = 18
  /\ Len(callResult.categoryBreakdown) = 17 /\ Len(callResult.affiliateBreakdown) = AffiliateLimit
  /\ callResult.affiliateBreakdown[1].category = <<"v","1","7">> /\ callResult.affiliateBreakdown[1].count = 2
  /\ callResult.affiliateBreakdown[2].category = <<"v","1">> /\ callResult.affiliateBreakdown[15].category = <<"v","1","4">>
  /\ Len(callResult.initiatorBreakdown) = InitiatorLimit

----------------------------------------------------------------------------
(* normalizeCategory (src/utils/categoryNormalizer.ts) and                  *)
(* HIGHLIGHTED_CATEGORIES (src/config/highlightedCategories.ts)             *)

L_InterfaceFreezing == <<"I","n","t","e","r","f","a","c","e"," ","f","r","e","e","z","i","n","g",","," ","s","l","o","w"," ","a","n","d"," ","o","r"," ","u","n","r","e","s","p","o","n","s","i","v","e">>
L_CoreBankingError == <<"C","o","r","e"," ","B","a","n","k","i","n","g"," ","E","r","r","o","r">>
L_AssignApplication == <<"A","s","s","i","g","n"," ","a","p","p","l","i","c","a","t","i","o","n"," ","t","o"," ","u","s","e","r"," ","o","n"," ","S","m","a","r","t"," ","T","e","l","l","e","r">>
L_TransactionFailure == <<"T","r","a","n","s","a","c","t","i","o","n"," ","F","a","i","l","u","r","e">>
L_CardIssuance == <<"C","a","r","d"," ","I","s","s","u","a","n","c","e"," ","C","o","n","n","e","c","t","i","v","i","t","y"," ","i","s","s","u","e","s">>
L_CardComplain == <<"C","a","r","d"," ","C","o","m","p","l","a","i","n"," ","w","i","t","h"," ","e","r","r","o","r"," ","c","o","d","e">>
L_CardError == <<"C","a","r","d"," ","e","r","r","o","r">>
L_Indigo == <<"C","h","a","l","l","e","n","g","e","s"," ","o","n"," ","i","n","d","i","g","o">>
L_AccountMaintenance == <<"A","c","c","o","u","n","t"," ","M","a","i","n","t","e","n","a","n","c","e">>
L_ChequeBook == <<"C","h","e","q","u","e"," ","B","o","o","k">>
L_AccountClosure == <<"A","c","c","o","u","n","t"," ","C","l","o","s","u","r","e">>
L_AccountClassTransfer == <<"A","c","c","o","u","n","t"," ","C","l","a","s","s"," ","T","r","a","n","s","f","e","r">>
L_AccountOpening == <<"A","c","c","o","u","n","t"," ","O","p","e","n","i","n","g"," ","C","h","a","l","l","e","n","g","e","s">>
L_AOUpdate == <<"A","O"," ","u","p","d","a","t","e"," ","C","h","a","l","l","e","n","g","e","s">>
L_FTValidation == <<"F","T"," ","v","a","l","i","d","a","t","i","o","n"," ","i","s","s","u","e">>
L_VirtualCards == <<"I","s","s","u","e"," ","c","r","e","a","t","i","n","g"," ","v","i","r","t","u","a","l"," ","c","a","r","d","s">>
L_OnboardingOTP == <<"O","n","b","o","a","r","d","i","n","g"," ","-"," ","N","o","n"," ","r","e","c","i","p","i","e","n","t"," ","O","T","P">>
L_Onboarding == <<"O","n","b","o","a","r","d","i","n","g"," ","r","e","l","a","t","e","d">>
L_AccountActivation == <<"A","c","c","o","u","n","t"," ","A","c","t","i","v","a","t","i","o","n">>

HIGHLIGHTED_CATEGORIES ==
  [flexcube |-> {L_AccountMaintenance, L_ChequeBook, L_AccountClosure, L_AccountClassTransfer},
   cards |-> {L_CardComplain, L_CardError, L_Indigo, L_CardIssuance},
   ibps |-> {L_AccountOpening, L_AOUpdate, L_AccountMaintenance, L_FTValidation},
   mfs |-> {L_VirtualCards, L_Onboarding, L_AccountActivation, L_OnboardingOTP},
   smart_teller |-> {L_InterfaceFreezing, L_CoreBankingError, L_AssignApplication, L_TransactionFailure}]

\* Variant: the core banking rule takes only the label itself
NormalizeSmartTellerExact(input, v) ==
  IF Includes(v, <<"i","n","t","e","r","f","a","c","e"," ","f","r","e","e","z","i","n","g">>) \/ Includes(v, <<"u","n","r","e","s","p","o","n","s","i","v","e">>) \/ Includes(v, <<"s","l","o","w">>)
    THEN L_InterfaceFreezing
  ELSE IF v = <<"c","o","r","e"," ","b","a","n","k","i","n","g"," ","e","r","r","o","r">> THEN L_CoreBankingError
  ELSE IF StartsAt(v, 1, <<"a","s","s","i","g","n"," ","a","p","p","l","i","c","a","t","i","o","n"," ","t","o"," ","u","s","e","r">>) THEN L_AssignApplication
  ELSE IF StartsAt(v, 1, <<"t","r","a","n","s","a","c","t","i","o","n"," ","f","a","i","l","u","r","e">>) THEN L_TransactionFailure
  ELSE input

\* The branch of each service; v is input.toLowerCase()
NormalizeSmartTeller(input, v) ==
  IF Includes(v, <<"i","n","t","e","r","f","a","c","e"," ","f","r","e","e","z","i","n","g">>) \/ Includes(v, <<"u","n","r","e","s","p","o","n","s","i","v","e">>) \/ Includes(v, <<"s","l","o","w">>)
    THEN L_InterfaceFreezing
  ELSE IF Includes(v, <<"c","o","r","e">>) /\ Includes(v, <<"b","a","n","k">>) /\ Includes(v, <<"e","r","r","o","r">>) THEN L_CoreBankingError
  ELSE IF StartsAt(v, 1, <<"a","s","s","i","g","n"," ","a","p","p","l","i","c","a","t","i","o","n"," ","t","o"," ","u","s","e","r">>) THEN L_AssignApplication
  ELSE IF StartsAt(v, 1, <<"t","r","a","n","s","a","c","t","i","o","n"," ","f","a","i","l","u","r","e">>) THEN L_TransactionFailure
  ELSE input

\* Variant: the card error rule is tried before the error code rule
NormalizeCardsErrorFirst(input, v) ==
  IF Includes(v, <<"i","s","s","u","a","n","c","e">>) /\ Includes(v, <<"c","o","n","n","e","c","t">>) THEN L_CardIssuance
  ELSE IF Includes(v, <<"c","a","r","d">>) /\ Includes(v, <<"e","r","r","o","r">>) THEN L_CardError
  ELSE IF Includes(v, <<"e","r","r","o","r"," ","c","o","d","e">>) \/ (Includes(v, <<"c","o","m","p","l","a","i","n">>) /\ Includes(v, <<"e","r","r","o","r">>)) THEN L_CardComplain
  ELSE IF Includes(v, <<"i","n","d","i","g","o">>) THEN L_Indigo
  ELSE input

NormalizeCards(input, v) ==
  IF Includes(v, <<"i","s","s","u","a","n","c","e">>) /\ Includes(v, <<"c","o","n","n","e","c","t">>) THEN L_CardIssuance
  ELSE IF Includes(v, <<"e","r","r","o","r"," ","c","o","d","e">>) \/ (Includes(v, <<"c","o","m","p","l","a","i","n">>) /\ Includes(v, <<"e","r","r","o","r">>)) THEN L_CardComplain
  ELSE IF Includes(v, <<"c","a","r","d">>) /\ Includes(v, <<"e","r","r","o","r">>) THEN L_CardError
  ELSE IF Includes(v, <<"i","n","d","i","g","o">>) THEN L_Indigo
  ELSE input

NormalizeFlexcube(input, v) ==
  IF Includes(v, <<"a","c","c","o","u","n","t"," ","m","a","i","n","t","e","n","a","n","c","e">>) THEN L_AccountMaintenance
  ELSE IF Includes(v, <<"c","h","e","q","u","e">>) /\ Includes(v, <<"b","o","o","k">>) THEN L_ChequeBook
  ELSE IF Includes(v, <<"a","c","c","o","u","n","t">>) /\ Includes(v, <<"c","l","o","s","u","r","e">>) THEN L_AccountClosure
  ELSE IF Includes(v, <<"a","c","c","o","u","n","t">>) /\ Includes(v, <<"c","l","a","s","s">>) /\ Includes(v, <<"t","r","a","n","s","f","e","r">>) THEN L_AccountClassTransfer
  ELSE input

NormalizeIbps(input, v) ==
  IF Includes(v, <<"a","c","c","o","u","n","t">>) /\ Includes(v, <<"o","p","e","n","i","n","g">>) THEN L_AccountOpening
  ELSE IF \/ Includes(v, <<"a","o">>) /\ Includes(v, <<"u","p","d","a","t","e">>)
          \/ Includes(v, <<"a","c","c","o","u","n","t">>) /\ Includes(v, <<"o","p","e","n","i","n","g">>) /\ Includes(v, <<"u","p","d","a","t","e">>) THEN L_AOUpdate
  ELSE IF Includes(v, <<"a","c","c","o","u","n","t"," ","m","a","i","n","t","e","n","a","n","c","e">>) THEN L_AccountMaintenance
  ELSE IF (Includes(v, <<"f","t">>) /\ Includes(v, <<"v","a","l","i","d","a","t","i","o","n">>)) \/ Includes(v, <<"f","u","n","d"," ","t","r","a","n","s","f","e","r"," ","v","a","l","i","d","a","t","i","o","n">>)
    THEN L_FTValidation
  ELSE input

NormalizeMfs(input, v) ==
  IF Includes(v, <<"v","i","r","t","u","a","l">>) /\ Includes(v, <<"c","a","r","d">>) THEN L_VirtualCards
  ELSE IF Includes(v, <<"o","n","b","o","a","r","d","i","n","g">>) /\ Includes(v, <<"n","o","n">>)
          /\ (Includes(v, <<"r","e","c","i","p","i","e","n","t">>) \/ Includes(v, <<"r","e","c","i","p","i","e","n","t">>)) THEN L_OnboardingOTP
  ELSE IF Includes(v, <<"o","n","b","o","a","r","d","i","n","g">>) THEN L_Onboarding
  ELSE IF Includes(v, <<"a","c","c","o","u","n","t">>) /\ Includes(v, <<"a","c","t","i","v","a","t","i","o","n">>) THEN L_AccountActivation
  ELSE input

\* (rawCategory || '').trim()
TrimmedCategory(rawCategory) == IF rawCategory \in {Null, Undefined} THEN <<>> ELSE trim(rawCategory)

NormalizeInput(service, input) ==
  IF input = <<>> THEN <<>>
  ELSE CASE service = "smart_teller" -> NormalizeSmartTeller(input, toLowerCase(input))
         [] service = "cards" -> NormalizeCards(input, toLowerCase(input))
         [] service = "flexcube" -> NormalizeFlexcube(input, toLowerCase(input))
         [] service = "ibps" -> NormalizeIbps(input, toLowerCase(input))
         [] service = "mfs" -> NormalizeMfs(input, toLowerCase(input))
         [] OTHER -> input

normalizeCategory(service, rawCategory) == NormalizeInput(service, TrimmedCategory(rawCategory))

----------------------------------------------------------------------------
(* SpecCategories: normalizeCategory applied to one category, and again to  *)
(* what it returned                                                         *)

ServiceKeys == {"flexcube", "cards", "ibps", "mfs", "smart_teller"}
Services == ServiceKeys \cup {"atm"}

\* The canonical labels, spellings the rules are written for, categories of
\* no rule, and no category at all
RawCategories ==
  UNION {HIGHLIGHTED_CATEGORIES[s] : s \in ServiceKeys} \cup
  {<<" "," ","c","o","r","e"," ","b","a","n","k","i","n","g"," ","e","r","r","o","r"," ">>, <<"C","O","R","E"," ","B","A","N","K"," ","E","R","R","O","R">>, <<"C","o","r","e"," ","b","a","n","k","i","n","g"," ","e","r","r","o","r"," ","-"," ","s","y","s","t","e","m"," ","s","l","o","w">>,
   <<"E","r","r","o","r",":"," ","c","o","r","e"," ","b","a","n","k"," ","u","n","r","e","s","p","o","n","s","i","v","e">>, <<"S","y","s","t","e","m"," ","s","l","o","w">>, <<"I","n","t","e","r","f","a","c","e"," ","F","r","e","e","z","i","n","g">>,
   <<"A","s","s","i","g","n"," ","a","p","p","l","i","c","a","t","i","o","n"," ","t","o"," ","u","s","e","r",":"," ","t","e","l","l","e","r"," ","3">>, <<"P","l","e","a","s","e"," ","a","s","s","i","g","n"," ","a","p","p","l","i","c","a","t","i","o","n"," ","t","o"," ","u","s","e","r">>,
   <<"T","r","a","n","s","a","c","t","i","o","n"," ","f","a","i","l","u","r","e"," ","-"," ","c","o","n","t","a","c","t"," ","s","u","p","p","o","r","t">>, <<"F","a","i","l","e","d"," ","t","r","a","n","s","a","c","t","i","o","n"," ","f","a","i","l","u","r","e">>,
   <<"I","n","s","t","a","n","t"," ","C","a","r","d"," ","I","s","s","u","a","n","c","e"," ","C","o","n","n","e","c","t","i","v","i","t","y"," ","i","s","s","u","e","s">>, <<"c","a","r","d"," ","e","r","r","o","r"," ","c","o","d","e"," ","0","5">>, <<"C","o","m","p","l","a","i","n",":"," ","c","a","r","d"," ","e","r","r","o","r">>,
   <<"A","T","M"," ","c","a","r","d"," ","e","r","r","o","r">>, <<"I","N","D","I","G","O"," ","d","o","w","n">>, <<"E","r","r","o","r"," ","c","o","d","e"," ","9","1">>,
   <<"a","c","c","o","u","n","t"," ","m","a","i","n","t","e","n","a","n","c","e"," ","r","e","q","u","e","s","t">>, <<"C","h","e","q","u","e"," ","b","o","o","k"," ","r","e","q","u","e","s","t">>, <<"C","l","o","s","u","r","e"," ","o","f"," ","a","c","c","o","u","n","t">>,
   <<"T","r","a","n","s","f","e","r"," ","o","f"," ","a","c","c","o","u","n","t"," ","c","l","a","s","s">>, <<"A","c","c","o","u","n","t"," ","o","p","e","n","i","n","g"," ","u","p","d","a","t","e">>, <<"A","O"," ","u","p","d","a","t","e">>,
   <<"F","u","n","d"," ","t","r","a","n","s","f","e","r"," ","v","a","l","i","d","a","t","i","o","n">>, <<"F","T"," ","v","a","l","i","d","a","t","i","o","n">>, <<"V","i","r","t","u","a","l"," ","c","a","r","d">>,
   <<"O","n","b","o","a","r","d","i","n","g"," ","n","o","n"," ","r","e","c","i","p","i","e","n","t"," ","O","T","P">>, <<"o","n","b","o","a","r","d","i","n","g">>, <<"A","c","t","i","v","a","t","i","o","n"," ","o","f"," ","a","c","c","o","u","n","t">>,
   <<"O","t","h","e","r"," ","i","s","s","u","e">>, <<" ","P","a","s","s","w","o","r","d"," ","r","e","s","e","t">>, <<" "," "," ">>, <<>>, Null, Undefined}

InitCategories ==
  /\ zone = 0
  /\ phase = "call"
  /\ \E service \in Services, raw \in RawCategories :
       callArg = [kind |-> "category", service |-> service, rawCategory |-> raw]
  /\ callResult = NotReturned
  /\ ParseIdle /\ WeeksIdle /\ ImportIdle

\* normalizeCategory(service, rawCategory)
NormalizeCategory ==
  /\ phase = "call" /\ callArg.kind = "category"
  /\ callResult' = [returned |-> TRUE, value |-> normalizeCategory(callArg.service, callArg.rawCategory),
                    again |-> Undefined]
  /\ phase' = "returned"
  /\ UNCHANGED <<zone, parseVars, weekVars, importVars, callArg>>

\* normalizeCategory(service, value) of the value returned
NormalizeCategoryAgain ==
  /\ phase = "returned" /\ callArg.kind = "category"
  /\ callResult' = [callResult EXCEPT !.again = normalizeCategory(callArg.service, callResult.value)]
  /\ phase' = "again"
  /\ UNCHANGED <<zone, parseVars, weekVars, importVars, callArg>>

NextCategories == NormalizeCategory \/ NormalizeCategoryAgain

SpecCategories == InitCategories /\ [][NextCategories]_vars

----------------------------------------------------------------------------
(* Properties of normalizeCategory, over SpecCategories                     *)

Normalized == phase \in {"returned", "again"} /\ callArg.kind = "category"

\* The trimmed input and its lower-case form
InputCategory == TrimmedCategory(callArg.rawCategory)
LowerCategory == toLowerCase(InputCategory)
Contains(word) == Includes(LowerCategory, word)

\* The rules of each service in the order listed, with whether the
\* lower-cased input matches
ListedRules(service) ==
  CASE service = "smart_teller" ->
         << [label |-> L_InterfaceFreezing,
             matches |-> Contains( <<"i","n","t","e","r","f","a","c","e"," ","f","r","e","e","z","i","n","g">> ) \/ Contains( <<"u","n","r","e","s","p","o","n","s","i","v","e">> ) \/ Contains( <<"s","l","o","w">> )],
            [label |-> L_CoreBankingError, matches |-> Contains( <<"c","o","r","e">> ) /\ Contains( <<"b","a","n","k">> ) /\ Contains( <<"e","r","r","o","r">> )],
            [label |-> L_AssignApplication, matches |-> StartsAt(LowerCategory, 1, <<"a","s","s","i","g","n"," ","a","p","p","l","i","c","a","t","i","o","n"," ","t","o"," ","u","s","e","r">> )],
            [label |-> L_TransactionFailure, matches |-> StartsAt(LowerCategory, 1, <<"t","r","a","n","s","a","c","t","i","o","n"," ","f","a","i","l","u","r","e">> )] >>
    [] service = "cards" ->
         << [label |-> L_CardIssuance, matches |-> Contains( <<"i","s","s","u","a","n","c","e">> ) /\ Contains( <<"c","o","n","n","e","c","t">> )],
            [label |-> L_CardComplain,
             matches |-> Contains( <<"e","r","r","o","r"," ","c","o","d","e">> ) \/ (Contains( <<"c","o","m","p","l","a","i","n">> ) /\ Contains( <<"e","r","r","o","r">> ))],
            [label |-> L_CardError, matches |-> Contains( <<"c","a","r","d">> ) /\ Contains( <<"e","r","r","o","r">> )],
            [label |-> L_Indigo, matches |-> Contains( <<"i","n","d","i","g","o">> )] >>
    [] service = "flexcube" ->
         << [label |-> L_AccountMaintenance, matches |-> Contains( <<"a","c","c","o","u","n","t"," ","m","a","i","n","t","e","n","a","n","c","e">> )],
            [label |-> L_ChequeBook, matches |-> Contains( <<"c","h","e","q","u","e">> ) /\ Contains( <<"b","o","o","k">> )],
            [label |-> L_AccountClosure, matches |-> Contains( <<"a","c","c","o","u","n","t">> ) /\ Contains( <<"c","l","o","s","u","r","e">> )],
            [label |-> L_AccountClassTransfer,
             matches |-> Contains( <<"a","c","c","o","u","n","t">> ) /\ Contains( <<"c","l","a","s","s">> ) /\ Contains( <<"t","r","a","n","s","f","e","r">> )] >>
    [] service = "ibps" ->
         << [label |-> L_AccountOpening, matches |-> Contains( <<"a","c","c","o","u","n","t">> ) /\ Contains( <<"o","p","e","n","i","n","g">> )],
            [label |-> L_AOUpdate,
             matches |-> \/ Contains( <<"a","o">> ) /\ Contains( <<"u","p","d","a","t","e">> )
                         \/ Contains( <<"a","c","c","o","u","n","t">> ) /\ Contains( <<"o","p","e","n","i","n","g">> ) /\ Contains( <<"u","p","d","a","t","e">> )],
            [label |-> L_AccountMaintenance, matches |-> Contains( <<"a","c","c","o","u","n","t"," ","m","a","i","n","t","e","n","a","n","c","e">> )],
            [label |-> L_FTValidation,
             matches |-> (Contains( <<"f","t">> ) /\ Contains( <<"v","a","l","i","d","a","t","i","o","n">> )) \/ Contains( <<"f","u","n","d"," ","t","r","a","n","s","f","e","r"," ","v","a","l","i","d","a","t","i","o","n">> )] >>
    [] service = "mfs" ->
         << [label |-> L_VirtualCards, matches |-> Contains( <<"v","i","r","t","u","a","l">> ) /\ Contains( <<"c","a","r","d">> )],
            [label |-> L_OnboardingOTP,
             matches |-> Contains( <<"o","n","b","o","a","r","d","i","n","g">> ) /\ Contains( <<"n","o","n">> ) /\ Contains( <<"r","e","c","i","p","i","e","n","t">> )],
            [label |-> L_Onboarding, matches |-> Contains( <<"o","n","b","o","a","r","d","i","n","g">> )],
            [label |-> L_AccountActivation, matches |-> Contains( <<"a","c","c","o","u","n","t">> ) /\ Contains( <<"a","c","t","i","v","a","t","i","o","n">> )] >>
    [] OTHER -> <<>>

MatchingRules(service) == {i \in 1..Len(ListedRules(service)) : ListedRules(service)[i].matches}

\* C19: normalizeCategory returns the label of the first listed rule of the
\* service that matches the lower-cased input, and the trimmed input when
\* none does or the service is not one of the five; every label of a rule is
\* a highlighted category of its service; and normalizing the value again
\* returns it unchanged
C19_FirstRuleElseTrimmedIdempotent ==
  /\ Normalized =>
       /\ (InputCategory # <<>> /\ MatchingRules(callArg.service) # {}) =>
            callResult.value = ListedRules(callArg.service)[SetMin(MatchingRules(callArg.service))].label
       /\ (InputCategory = <<>> \/ MatchingRules(callArg.service) = {}) => callResult.value = InputCategory
       /\ callArg.service \in ServiceKeys =>
            \A i \in 1..Len(ListedRules(callArg.service)) :
              ListedRules(callArg.service)[i].label \in HIGHLIGHTED_CATEGORIES[callArg.service]
       /\ callArg.service \notin ServiceKeys => callResult.value = InputCategory
  /\ (phase = "again" /\ callArg.kind = "category") => callResult.again = callResult.value

C19_Witness ==
  /\ phase = "again"
  /\ callArg.service = "cards" /\ callArg.rawCategory = <<"c","a","r","d"," ","e","r","r","o","r"," ","c","o","d","e"," ","0","5">>
  /\ callResult.value = L_CardComplain /\ callResult.again = L_CardComplain

CoreBankError == Contains( <<"c","o","r","e">> ) /\ Contains( <<"b","a","n","k">> ) /\ Contains( <<"e","r","r","o","r">> )
FreezingSlowUnresponsive == Contains( <<"i","n","t","e","r","f","a","c","e"," ","f","r","e","e","z","i","n","g">> ) \/ Contains( <<"u","n","r","e","s","p","o","n","s","i","v","e">> ) \/ Contains( <<"s","l","o","w">> )

\* C20 as stated: for smart_teller every input containing "core", "bank" and
\* "error" is normalized to "Core Banking Error"
C20_AsStated ==
  (Normalized /\ callArg.service = "smart_teller" /\ CoreBankError) => callResult.value = L_CoreBankingError

\* C20: for smart_teller an input containing "core", "bank" and "error" in
\* any case is normalized to "Core Banking Error" unless it also contains
\* "interface freezing", "unresponsive" or "slow", and then to "Interface
\* freezing, slow and or unresponsive"
C20_CoreBankingErrorUnlessFreezing ==
  (Normalized /\ callArg.service = "smart_teller" /\ CoreBankError) =>
    callResult.value = IF FreezingSlowUnresponsive THEN L_InterfaceFreezing ELSE L_CoreBankingError

C20_Witness ==
  /\ Normalized /\ callArg.service = "smart_teller"
  /\ callArg.rawCategory = <<"C","O","R","E"," ","B","A","N","K"," ","E","R","R","O","R">>
  /\ callResult.value = L_CoreBankingError

----------------------------------------------------------------------------
(* analyzeTrendPattern, generateWeeklyInsights and generateMonthlyInsights  *)
(* (src/utils/insightsGenerator.ts)                                         *)
(*                                                                          *)
(* A trend is the sequence of the counts of its periods, in order. The      *)
(* quotients the code compares with a threshold are compared exactly, by    *)
(* cross-multiplication; a quotient 0 / 0 is NaN and compares false. An     *)
(* insight is its title without the pictograph, its severity and its icon.  *)

Abs(x) == IF x < 0 THEN 0 - x ELSE x

RECURSIVE Sum(_)
Sum(seq) == IF seq = <<>> THEN 0 ELSE seq[1] + Sum(Tail(seq))

\* data.slice(1).map((item, idx) => item.count - data[idx].count)
Changes(counts) == [i \in 1..(Len(counts) - 1) |-> counts[i + 1] - counts[i]]

\* changes.length squared times the variance of the changes
ScaledVariance(changes) ==
  Len(changes) * Sum([i \in 1..Len(changes) |-> changes[i] * changes[i]]) - Sum(changes) * Sum(changes)

\* The square of volatilityRatio = volatility / avgVolume, with avgVolume =
\* total / points, is ScaledVariance * points^2 / (total^2 * changes.length^2).
\* It is compared with (num / den)^2 by integer division, which is exact for
\* integers: v * k > b iff v > b \div k, and v * k < b iff v <= (b - 1) \div k
RatioBound(changes, total, num) == num * num * total * total * Len(changes) * Len(changes)
RatioScale(points, den) == den * den * points * points

\* volatilityRatio > num / den
VolatilityRatioAbove(changes, total, points, num, den) ==
  IF total = 0 THEN ScaledVariance(changes) > 0
  ELSE ScaledVariance(changes) > RatioBound(changes, total, num) \div RatioScale(points, den)

\* volatilityRatio < num / den
VolatilityRatioBelow(changes, total, points, num, den) ==
  IF total = 0 THEN FALSE
  ELSE ScaledVariance(changes) <= (RatioBound(changes, total, num) - 1) \div RatioScale(points, den)

\* The sums of the absolute values of the last 3 changes and of the earlier
\* ones: recentAvg is recent / 3, earlierAvg is earlier / (Len(changes) - 3),
\* or recentAvg when there are no earlier changes
RecentChanges(changes) == Sum([i \in 1..3 |-> Abs(changes[Len(changes) - 3 + i])])
EarlierChanges(changes) == Sum([i \in 1..(Len(changes) - 3) |-> Abs(changes[i])])

\* Variant: the last 3 changes are compared with all changes
MomentumOfAll(changes) ==
  IF Len(changes) < 3 THEN "steady"
  ELSE IF 10 * RecentChanges(changes) * Len(changes) > 39 * Sum([i \in 1..Len(changes) |-> Abs(changes[i])])
    THEN "accelerating"
  ELSE IF 10 * RecentChanges(changes) * Len(changes) < 21 * Sum([i \in 1..Len(changes) |-> Abs(changes[i])])
    THEN "decelerating"
  ELSE "steady"

Momentum(changes) ==
  IF Len(changes) < 3 THEN "steady"
  ELSE IF Len(changes) = 3
    THEN IF 10 * RecentChanges(changes) > 13 * RecentChanges(changes) THEN "accelerating"
         ELSE IF 10 * RecentChanges(changes) < 7 * RecentChanges(changes) THEN "decelerating"
         ELSE "steady"
  ELSE IF 10 * RecentChanges(changes) * (Len(changes) - 3) > 39 * EarlierChanges(changes) THEN "accelerating"
  ELSE IF 10 * RecentChanges(changes) * (Len(changes) - 3) < 21 * EarlierChanges(changes) THEN "decelerating"
  ELSE "steady"

PatternOf(changes, total, points) ==
  [isIncreasing |-> /\ Cardinality({i \in 1..Len(changes) : changes[i] > 0})
                         > Cardinality({i \in 1..Len(changes) : changes[i] < 0})
                    /\ Sum(changes) > 0,
   isDecreasing |-> /\ Cardinality({i \in 1..Len(changes) : changes[i] < 0})
                         > Cardinality({i \in 1..Len(changes) : changes[i] > 0})
                    /\ Sum(changes) < 0,
   isVolatile |-> VolatilityRatioAbove(changes, total, points, 3, 10),
   isStable |-> VolatilityRatioBelow(changes, total, points, 3, 20),
   momentum |-> Momentum(changes)]

analyzeTrendPattern(data) ==
  IF Len(data) < 2
    THEN [isIncreasing |-> FALSE, isDecreasing |-> FALSE, isVolatile |-> FALSE, isStable |-> TRUE,
          momentum |-> "steady"]
    ELSE PatternOf(Changes(data), Sum(data), Len(data))

IconOf(severity) ==
  IF severity = "critical" THEN "alert" ELSE IF severity = "warning" THEN "warning"
  ELSE IF severity = "positive" THEN "success" ELSE "info"

Insight(title, severity) == [title |-> title, severity |-> severity, icon |-> IconOf(severity)]

\* Math.abs(percentChange) > percent, percentChange being 0 when previous is 0
MagnitudeAbove(change, previous, percent) == previous > 0 /\ 100 * Abs(change) > percent * previous

\* Variant: falls are tagged like rises
WeekOverWeekBySize(change, previous) ==
  IF change = 0 THEN <<Insight("Stable Volume", "neutral")>>
  ELSE IF MagnitudeAbove(change, previous, 50) THEN <<Insight("Significant Spike Detected", "critical")>>
  ELSE IF MagnitudeAbove(change, previous, 20) THEN <<Insight("Notable Increase in Volume", "warning")>>
  ELSE <<Insight("Slight Uptick Observed", "warning")>>

\* Week-over-week analysis
WeekOverWeek(change, previous) ==
  IF change > 0
    THEN IF MagnitudeAbove(change, previous, 50) THEN <<Insight("Significant Spike Detected", "critical")>>
         ELSE IF MagnitudeAbove(change, previous, 20) THEN <<Insight("Notable Increase in Volume", "warning")>>
         ELSE <<Insight("Slight Uptick Observed", "warning")>>
  ELSE IF change < 0
    THEN IF MagnitudeAbove(change, previous, 50) THEN <<Insight("Dramatic Improvement", "positive")>>
         ELSE IF MagnitudeAbove(change, previous, 20) THEN <<Insight("Significant Reduction", "positive")>>
         ELSE <<Insight("Modest Improvement", "positive")>>
  ELSE <<Insight("Stable Volume", "neutral")>>

\* Pattern-based insights
VolatilityInsight(pattern, points) ==
  IF pattern.isVolatile /\ points >= 4 THEN <<Insight("High Volatility Detected", "warning")>> ELSE <<>>

AcceleratingInsight(pattern) ==
  IF pattern.momentum = "accelerating" /\ pattern.isIncreasing
    THEN <<Insight("Accelerating Growth", "critical")>> ELSE <<>>

\* Comparison to average: deviationFromAvg = ((latest - average) / average) * 100
AverageInsight(latest, total, points) ==
  IF total # 0 /\ 100 * Abs(latest * points - total) > 30 * Abs(total)
    THEN IF latest * points > total THEN <<Insight("Well Above Average", "warning")>>
         ELSE <<Insight("Well Below Average", "positive")>>
    ELSE <<>>

\* Overall trend insight
OverallInsight(first, latest, points) ==
  IF points >= 3 /\ first > 0 /\ 100 * Abs(latest - first) > 25 * first
    THEN IF latest > first THEN <<Insight("Trend: Increased", "warning")>>
         ELSE <<Insight("Trend: Decreased", "positive")>>
    ELSE <<>>

WeeklyInsights(trend, pattern) ==
  WeekOverWeek(trend[Len(trend)] - trend[Len(trend) - 1], trend[Len(trend) - 1])
    \o VolatilityInsight(pattern, Len(trend))
    \o AcceleratingInsight(pattern)
    \o AverageInsight(trend[Len(trend)], Sum(trend), Len(trend))
    \o OverallInsight(trend[1], trend[Len(trend)], Len(trend))

\* Variant: the last three insights are returned
LastThree(insights) == SubSeq(insights, IF Len(insights) > 3 THEN Len(insights) - 2 ELSE 1, Len(insights))

\* insights.slice(0, 3)
TopThree(insights) == Slice(insights, 0, 3)

generateWeeklyInsights(weeklyTrend) ==
  IF Len(weeklyTrend) < 2 THEN <<Insight("Insufficient Data", "neutral")>>
  ELSE TopThree(WeeklyInsights(weeklyTrend, analyzeTrendPattern(weeklyTrend)))

\* Variant: month-over-month analysis with the thresholds of the weekly one
MonthOverMonthAtWeeklyThresholds(change, previous) ==
  IF change > 0
    THEN IF MagnitudeAbove(change, previous, 50) THEN <<Insight("Major Monthly Increase", "critical")>>
         ELSE IF MagnitudeAbove(change, previous, 20) THEN <<Insight("Monthly Volume Rising", "warning")>>
         ELSE <<Insight("Slight Monthly Increase", "neutral")>>
  ELSE IF change < 0
    THEN IF MagnitudeAbove(change, previous, 50) THEN <<Insight("Outstanding Monthly Performance", "positive")>>
         ELSE IF MagnitudeAbove(change, previous, 20) THEN <<Insight("Strong Monthly Improvement", "positive")>>
         ELSE <<Insight("Modest Monthly Improvement", "positive")>>
  ELSE <<>>

\* Month-over-month analysis
MonthOverMonth(change, previous) ==
  IF change > 0
    THEN IF MagnitudeAbove(change, previous, 40) THEN <<Insight("Major Monthly Increase", "critical")>>
         ELSE IF MagnitudeAbove(change, previous, 15) THEN <<Insight("Monthly Volume Rising", "warning")>>
         ELSE <<Insight("Slight Monthly Increase", "neutral")>>
  ELSE IF change < 0
    THEN IF MagnitudeAbove(change, previous, 40) THEN <<Insight("Outstanding Monthly Performance", "positive")>>
         ELSE IF MagnitudeAbove(change, previous, 15) THEN <<Insight("Strong Monthly Improvement", "positive")>>
         ELSE <<Insight("Modest Monthly Improvement", "positive")>>
  ELSE <<>>

\* Seasonal or pattern insights: rangePercent = (range / average) * 100
SeasonalInsight(trend) ==
  IF /\ Len(trend) >= 6
     /\ Sum(trend) # 0
     /\ 100 * (SetMax({trend[i] : i \in 1..Len(trend)}) - SetMin({trend[i] : i \in 1..Len(trend)})) * Len(trend)
          > 50 * Sum(trend)
    THEN <<Insight("High Seasonal Variation", "warning")>> ELSE <<>>

\* Trend direction
DirectionInsight(pattern, points) ==
  IF pattern.isIncreasing /\ points >= 3 THEN <<Insight("Sustained Upward Trend", "warning")>>
  ELSE IF pattern.isDecreasing /\ points >= 3 THEN <<Insight("Sustained Improvement", "positive")>>
  ELSE <<>>

MonthlyInsights(trend, pattern) ==
  MonthOverMonth(trend[Len(trend)] - trend[Len(trend) - 1], trend[Len(trend) - 1])
    \o SeasonalInsight(trend)
    \o DirectionInsight(pattern, Len(trend))

generateMonthlyInsights(monthlyTrend) ==
  IF Len(monthlyTrend) < 2 THEN <<Insight("Insufficient Data", "neutral")>>
  ELSE TopThree(MonthlyInsights(monthlyTrend, analyzeTrendPattern(monthlyTrend)))

----------------------------------------------------------------------------
(* SpecInsights: the insights of one trend                                  *)

MaxPoints == 6
ShortTrend == 4

\* The counts of the periods of a trend of up to ShortTrend points, and of a
\* longer one
PeriodCounts == {0, 10, 11, 15, 25, 100}
LongPeriodCounts == {0, 10, 15, 25}

InitInsights ==
  /\ zone = 0
  /\ phase = "call"
  /\ \E n \in 0..MaxPoints : \E trend \in [1..n -> IF n <= ShortTrend THEN PeriodCounts ELSE LongPeriodCounts] : callArg = [kind |-> "trend", trend |-> trend]
  /\ callResult = NotReturned
  /\ ParseIdle /\ WeeksIdle /\ ImportIdle

\* generateWeeklyInsights(weeklyTrend), with the pattern it analyzed
GenerateWeeklyInsights ==
  /\ phase = "call" /\ callArg.kind = "trend"
  /\ callResult' = [returned |-> TRUE, entry |-> "weekly", pattern |-> analyzeTrendPattern(callArg.trend),
                    insights |-> generateWeeklyInsights(callArg.trend)]
  /\ phase' = "returned"
  /\ UNCHANGED <<zone, parseVars, weekVars, importVars, callArg>>

\* generateMonthlyInsights(monthlyTrend), with the pattern it analyzed
GenerateMonthlyInsights ==
  /\ phase = "call" /\ callArg.kind = "trend"
  /\ callResult' = [returned |-> TRUE, entry |-> "monthly", pattern |-> analyzeTrendPattern(callArg.trend),
                    insights |-> generateMonthlyInsights(callArg.trend)]
  /\ phase' = "returned"
  /\ UNCHANGED <<zone, parseVars, weekVars, importVars, callArg>>

NextInsights == GenerateWeeklyInsights \/ GenerateMonthlyInsights

SpecInsights == InitInsights /\ [][NextInsights]_vars

----------------------------------------------------------------------------
(* Properties of the insights, over SpecInsights                            *)

Generated == phase = "returned" /\ callArg.kind = "trend"
Weekly == Generated /\ callResult.entry = "weekly"
Monthly == Generated /\ callResult.entry = "monthly"

\* The place of an insight in the priority order of its generator
PeriodTitles ==
  {"Significant Spike Detected", "Notable Increase in Volume", "Slight Uptick Observed",
   "Dramatic Improvement", "Significant Reduction", "Modest Improvement", "Stable Volume",
   "Major Monthly Increase", "Monthly Volume Rising", "Slight Monthly Increase",
   "Outstanding Monthly Performance", "Strong Monthly Improvement", "Modest Monthly Improvement"}
PriorityOf(title) ==
  CASE title \in PeriodTitles -> 1
    [] title \in {"High Volatility Detected", "High Seasonal Variation"} -> 2
    [] title \in {"Accelerating Growth", "Sustained Upward Trend", "Sustained Improvement"} -> 3
    [] title \in {"Well Above Average", "Well Below Average"} -> 4
    [] title \in {"Trend: Increased", "Trend: Decreased"} -> 5
    [] OTHER -> 0

\* Every insight the generator makes for the trend, before the cut
AllGenerated ==
  IF callResult.entry = "weekly" THEN WeeklyInsights(callArg.trend, callResult.pattern)
  ELSE MonthlyInsights(callArg.trend, callResult.pattern)

\* C21: both generators return at most 3 insights, in priority order, and
\* they are the first 3 (or all, when fewer) of the insights generated: the
\* i-th returned is the i-th generated
C21_FirstThreeInPriorityOrder ==
  Generated =>
    /\ Len(callResult.insights) <= 3
    /\ \A i \in 1..Len(callResult.insights), j \in 1..Len(callResult.insights) :
         i < j => PriorityOf(callResult.insights[i].title) < PriorityOf(callResult.insights[j].title)
    /\ Len(callArg.trend) >= 2 =>
         /\ Len(callResult.insights) = IF Len(AllGenerated) > 3 THEN 3 ELSE Len(AllGenerated)
         /\ \A i \in 1..Len(callResult.insights) : callResult.insights[i] = AllGenerated[i]

C21_Witness ==
  /\ Weekly /\ Len(callArg.trend) >= 2
  /\ Len(AllGenerated) = 5 /\ Len(callResult.insights) = 3
  /\ callResult.insights[3].title = "Accelerating Growth"

LatestCount == callArg.trend[Len(callArg.trend)]
PreviousCount == callArg.trend[Len(callArg.trend) - 1]
Rise == LatestCount > PreviousCount
Fall == LatestCount < PreviousCount

\* C22 as stated: the first weekly insight is critical for a rise of more
\* than 50% of the previous count, warning for a smaller rise, positive for
\* a fall and neutral for no change, for all non-negative counts
C22_AsStated ==
  (Weekly /\ Len(callArg.trend) >= 2) =>
    callResult.insights[1].severity =
      IF Rise THEN (IF 100 * (LatestCount - PreviousCount) > 50 * PreviousCount THEN "critical" ELSE "warning")
      ELSE IF Fall THEN "positive" ELSE "neutral"

\* C22: the first weekly insight is critical for a rise of more than 50% of
\* a positive previous count and warning for every other rise, a rise from
\* a previous count of 0 included; it is positive for a fall and neutral
\* for no change; so a rise is never positive and a fall never warning or
\* critical
C22_SeverityOfLatestChange ==
  (Weekly /\ Len(callArg.trend) >= 2) =>
    /\ callResult.insights[1].severity =
         IF Rise THEN (IF PreviousCount > 0 /\ 100 * (LatestCount - PreviousCount) > 50 * PreviousCount
                         THEN "critical" ELSE "warning")
         ELSE IF Fall THEN "positive" ELSE "neutral"
    /\ callResult.insights[1].title \in PeriodTitles
    /\ Rise => callResult.insights[1].severity # "positive"
    /\ Fall => callResult.insights[1].severity \notin {"warning", "critical"}

C22_Witness ==
  /\ Weekly /\ callArg.trend = <<10, 25>>
  /\ callResult.insights[1].severity = "critical"
  /\ callResult.insights[1].title = "Significant Spike Detected"

\* The severity and the place in the priority order of each insight
Outline(insights) ==
  [i \in 1..Len(insights) |-> [severity |-> insights[i].severity, priority |-> PriorityOf(insights[i].title)]]

\* C23 as stated: generateMonthlyInsights selects its insights by the rules
\* of generateWeeklyInsights, so both give insights of the same severities
\* and priorities for the same counts
C23_AsStated ==
  Monthly => Outline(callResult.insights) = Outline(generateWeeklyInsights(callArg.trend))

HighestCount == SetMax({callArg.trend[i] : i \in 1..Len(callArg.trend)})
LowestCount == SetMin({callArg.trend[i] : i \in 1..Len(callArg.trend)})

\* What the monthly rules give: the latest-vs-previous change with the
\* thresholds 15% and 40%, then the seasonal variation, then the direction
MonthlyOutline ==
  (IF Rise
     THEN <<[severity |-> IF PreviousCount > 0 /\ 100 * (LatestCount - PreviousCount) > 40 * PreviousCount
                            THEN "critical"
                          ELSE IF PreviousCount > 0 /\ 100 * (LatestCount - PreviousCount) > 15 * PreviousCount
                            THEN "warning"
                          ELSE "neutral",
              priority |-> 1]>>
   ELSE IF Fall THEN <<[severity |-> "positive", priority |-> 1]>> ELSE <<>>)
  \o (IF Len(callArg.trend) >= 6 /\ 100 * (HighestCount - LowestCount) * Len(callArg.trend) > 50 * Sum(callArg.trend)
        THEN <<[severity |-> "warning", priority |-> 2]>> ELSE <<>>)
  \o (IF Len(callArg.trend) >= 3 /\ callResult.pattern.isIncreasing THEN <<[severity |-> "warning", priority |-> 3]>>
      ELSE IF Len(callArg.trend) >= 3 /\ callResult.pattern.isDecreasing
        THEN <<[severity |-> "positive", priority |-> 3]>>
      ELSE <<>>)

\* C23: generateMonthlyInsights has rules of its own: a rise of more than
\* 40% of the previous count is critical, one of more than 15% warning, a
\* smaller rise neutral, a fall positive, and no change gives no insight;
\* then come a seasonal-variation callout (6 or more months whose range
\* exceeds 50% of the average) and a sustained-direction callout (3 or more
\* months, increasing or decreasing), and nothing else
C23_MonthlyRules ==
  (Monthly /\ Len(callArg.trend) >= 2) => Outline(callResult.insights) = MonthlyOutline

C23_Witness ==
  /\ Monthly /\ Len(callArg.trend) = 6
  /\ PreviousCount = 10 /\ LatestCount = 15
  /\ Len(callResult.insights) = 3
  /\ callResult.insights[1].severity = "critical"
  /\ callResult.insights[2].title = "High Seasonal Variation"
  /\ Outline(callResult.insights) # Outline(generateWeeklyInsights(callArg.trend))

AllCountsEqual == \A i \in 1..Len(callArg.trend) : callArg.trend[i] = callArg.trend[1]
HasVolatilityInsight ==
  \E i \in 1..Len(callResult.insights) : callResult.insights[i].title = "High Volatility Detected"

\* C24 as stated: a trend of at least 2 points with equal counts is stable,
\* not volatile, and gets no volatility insight; no pattern is both volatile
\* and stable, or both increasing and decreasing
C24_AsStated ==
  Generated =>
    /\ (Len(callArg.trend) >= 2 /\ AllCountsEqual) =>
         /\ callResult.pattern.isStable
         /\ ~callResult.pattern.isVolatile
         /\ ~HasVolatilityInsight
    /\ ~(callResult.pattern.isVolatile /\ callResult.pattern.isStable)
    /\ ~(callResult.pattern.isIncreasing /\ callResult.pattern.isDecreasing)

\* The absolute value of the i-th delta, and the sum of those from a to b
AbsDelta(i) == Abs(callArg.trend[i + 1] - callArg.trend[i])
RECURSIVE SumAbsDeltas(_, _)
SumAbsDeltas(a, b) == IF a > b THEN 0 ELSE AbsDelta(a) + SumAbsDeltas(a + 1, b)
Deltas == Len(callArg.trend) - 1

\* C25: momentum is steady with fewer than 3 deltas and with exactly 3;
\* with more it is accelerating iff the mean absolute value of the last 3
\* deltas exceeds 1.3 times that of the earlier deltas, decelerating iff it
\* is below 0.7 times that mean, and steady otherwise
C25_MomentumByRecentAgainstEarlier ==
  Generated =>
    /\ Deltas <= 3 => callResult.pattern.momentum = "steady"
    /\ Deltas > 3 =>
         /\ callResult.pattern.momentum = "accelerating"
              <=> 10 * SumAbsDeltas(Deltas - 2, Deltas) * (Deltas - 3) > 13 * 3 * SumAbsDeltas(1, Deltas - 3)
         /\ callResult.pattern.momentum = "decelerating"
              <=> 10 * SumAbsDeltas(Deltas - 2, Deltas) * (Deltas - 3) < 7 * 3 * SumAbsDeltas(1, Deltas - 3)
         /\ callResult.pattern.momentum \in {"accelerating", "decelerating", "steady"}

C25_Witness ==
  /\ Generated /\ callArg.trend = <<25, 0, 25, 15, 10, 10>>
  /\ callResult.pattern.momentum = "decelerating"

(***************************************************************************)
(* The tickets routes of the server, and ticketService.getTickets.  The    *)
(* table ticket_data is held as the number of rows stored under each       *)
(* import: the routes select rows by import_id only, and never change a    *)
(* row once it is stored.  Each POST /tickets/batch request is a handler   *)
(* that runs between its awaits, so two handlers interleave.               *)
(***************************************************************************)
ImportIds == {"imp1", "imp2"}
Handlers == {1, 2}
StoredBefore == 9999
MaxPosts == 3
GetAllLimit == 10000
DefaultLimit == 1000

Min(a, b) == IF a < b THEN a ELSE b

NoHandler == [pc |-> "idle", tickets |-> Null, import_id |-> "", acquired |-> FALSE, released |-> 0, status |-> 0, tx |-> 0]

\* The rows of ticket_data a WHERE clause on import_id selects (all rows
\* when the request names no import: "" stands for an import_id that is
\* absent or empty, which the code treats alike)
RowsWhere(ticket_data, import_id) ==
  IF import_id \in ImportIds THEN ticket_data[import_id]
  ELSE IF import_id = "" THEN ticket_data["imp1"] + ticket_data["imp2"]
  ELSE 0

\* ORDER BY request_time DESC LIMIT limit OFFSET offset: how many rows the
\* query gives
LimitOffset(rows, limit, offset) == Min(IF rows > offset THEN rows - offset ELSE 0, limit)

\* router.get('/'): the rows in the response's data, for the query
\* parameters import_id and limit (DefaultLimit when the request gives none)
getRoute(ticket_data, query) ==
  LimitOffset(RowsWhere(ticket_data, query.import_id), IF "limit" \in DOMAIN query THEN query.limit ELSE DefaultLimit, 0)

\* ticketService.getTickets(filters): the parameters of its request
getTicketsParams(filters) == [limit |-> GetAllLimit, import_id |-> filters.import_id]

\* What the table holds once a transaction with tx rows inserted under
\* import_id is committed, and once it is rolled back
AfterCommit(ticket_data, import_id, tx) == [ticket_data EXCEPT ![import_id] = @ + tx]
\* Variant: a rollback that keeps the rows inserted in the transaction
AfterRollbackKeepsRows(ticket_data, import_id, tx) == [ticket_data EXCEPT ![import_id] = @ + tx]
AfterRollback(ticket_data, import_id, tx) == ticket_data

InitServer ==
  /\ zone = 0
  /\ phase = "serving"
  /\ \E n \in {0, StoredBefore} : server = [ticket_data |-> [i \in ImportIds |-> IF i = "imp1" THEN n ELSE 0], received |-> 0]
  /\ requests = [h \in Handlers |-> NoHandler]
  /\ view = [pastedData |-> <<>>, importName |-> <<>>, parsedResult |-> NoResult, importing |-> FALSE]
  /\ user = FALSE /\ run = NoRun
  /\ notes = [toasts |-> <<>>, completed |-> 0]
  /\ ParseIdle /\ WeeksIdle /\ CallIdle

ServerFrame == UNCHANGED <<zone, parseVars, weekVars, view, user, run, notes>>

\* router.post('/batch') up to its first query: getClient() gives a pooled
\* client, or rejects and the handler ends with no client and no response
PostBatch(h) ==
  /\ phase = "serving" /\ requests[h].pc \in {"idle", "done"} /\ server.received < MaxPosts
  /\ \E body \in {Null, <<>>, <<"T1">>, <<"T1", "T2">>} : \E import_id \in ImportIds \cup {""} : \E connected \in BOOLEAN :
       requests' = [requests EXCEPT ![h] = [NoHandler EXCEPT !.tickets = body, !.import_id = import_id,
                                                       !.acquired = connected,
                                                       !.pc = IF connected THEN "try" ELSE "done"]]
  /\ server' = [server EXCEPT !.received = @ + 1]
  /\ UNCHANGED <<phase, callVars>> /\ ServerFrame

\* The two checks of the body, then BEGIN
Begin(h) ==
  /\ phase = "serving" /\ requests[h].pc = "try"
  /\ \/ /\ requests[h].tickets = Null \/ requests[h].tickets = <<>> \/ requests[h].import_id = ""
        /\ requests' = [requests EXCEPT ![h].status = 400, ![h].pc = "finally"]
     \/ /\ ~(requests[h].tickets = Null \/ requests[h].tickets = <<>> \/ requests[h].import_id = "")
        /\ \E threw \in BOOLEAN : requests' = [requests EXCEPT ![h].pc = IF threw THEN "catch" ELSE "insert"]
  /\ UNCHANGED <<phase, server, callVars>> /\ ServerFrame

\* The one INSERT of all the rows: inside the transaction, or it throws and
\* inserts none
Insert(h) ==
  /\ phase = "serving" /\ requests[h].pc = "insert"
  /\ \E threw \in BOOLEAN :
       requests' = [requests EXCEPT ![h].pc = IF threw THEN "catch" ELSE "commit",
                                    ![h].tx = IF threw THEN 0 ELSE Len(requests[h].tickets)]
  /\ UNCHANGED <<phase, server, callVars>> /\ ServerFrame

\* COMMIT, then the 201 response; or COMMIT throws
Commit(h) ==
  /\ phase = "serving" /\ requests[h].pc = "commit"
  /\ \/ /\ server' = [server EXCEPT !.ticket_data = AfterCommit(@, requests[h].import_id, requests[h].tx)]
        /\ requests' = [requests EXCEPT ![h].status = 201, ![h].tx = 0, ![h].pc = "finally"]
     \/ /\ requests' = [requests EXCEPT ![h].pc = "catch"]
        /\ server' = server
  /\ UNCHANGED <<phase, callVars>> /\ ServerFrame

\* The catch block: ROLLBACK, then the 500 response; when ROLLBACK throws the
\* handler goes to its finally block with no response, and the database
\* aborts the transaction of the broken connection
Catch(h) ==
  /\ phase = "serving" /\ requests[h].pc = "catch"
  /\ server' = [server EXCEPT !.ticket_data = AfterRollback(@, requests[h].import_id, requests[h].tx)]
  /\ \E threw \in BOOLEAN :
       requests' = [requests EXCEPT ![h].status = IF threw THEN 0 ELSE 500, ![h].tx = 0, ![h].pc = "finally"]
  /\ UNCHANGED <<phase, callVars>> /\ ServerFrame

\* The finally block: client.release()
Finally(h) ==
  /\ phase = "serving" /\ requests[h].pc = "finally"
  /\ requests' = [requests EXCEPT ![h].released = @ + 1, ![h].pc = "done"]
  /\ UNCHANGED <<phase, server, callVars>> /\ ServerFrame

\* ticketService.getTickets(filters), answered by router.get('/') while no
\* batch request is being handled
GetTickets ==
  /\ phase = "serving" /\ \A h \in Handlers : requests[h].pc \in {"idle", "done"}
  /\ \E import_id \in ImportIds \cup {""} :
       /\ callArg' = [kind |-> "filters", import_id |-> import_id]
       /\ callResult' = [returned |-> TRUE, threw |-> FALSE,
                         data |-> getRoute(server.ticket_data, getTicketsParams([import_id |-> import_id]))]
  /\ phase' = "returned"
  /\ UNCHANGED <<server, requests>> /\ ServerFrame

\* The same call when a query of the route throws: the route answers 500
\* and getTickets rejects
GetTicketsFails ==
  /\ phase = "serving" /\ \A h \in Handlers : requests[h].pc \in {"idle", "done"}
  /\ \E import_id \in ImportIds \cup {""} :
       /\ callArg' = [kind |-> "filters", import_id |-> import_id]
       /\ callResult' = [returned |-> TRUE, threw |-> TRUE, data |-> 0]
  /\ phase' = "returned"
  /\ UNCHANGED <<server, requests>> /\ ServerFrame

NextServer ==
  \/ \E h \in Handlers : PostBatch(h)
  \/ \E h \in Handlers : Begin(h)
  \/ \E h \in Handlers : Insert(h)
  \/ \E h \in Handlers : Commit(h)
  \/ \E h \in Handlers : Catch(h)
  \/ \E h \in Handlers : Finally(h)
  \/ GetTickets
  \/ GetTicketsFails

SpecServer == InitServer /\ [][NextServer]_vars

GotTickets == phase = "returned" /\ callArg.kind = "filters" /\ callResult.returned /\ ~callResult.threw

\* C26: getTickets returns every ticket stored for the requested import
\* (every stored ticket when no import is given), whatever their number
C26_AsStated ==
  GotTickets => callResult.data = RowsWhere(server.ticket_data, callArg.import_id)

Responds201(h) == requests'[h].status = 201 /\ requests[h].status # 201

StoresRequest(h) ==
  /\ server'.ticket_data[requests[h].import_id] = server.ticket_data[requests[h].import_id] + Len(requests[h].tickets)
  /\ \A i \in ImportIds \ {requests[h].import_id} : server'.ticket_data[i] = server.ticket_data[i]

ReleasedOnce(h) ==
  IF requests'[h].acquired THEN requests'[h].released = (IF requests'[h].pc = "done" THEN 1 ELSE 0)
  ELSE requests'[h].released = 0

C27_Step ==
  /\ \A h \in Handlers : Responds201(h) => StoresRequest(h)
  /\ (\A h \in Handlers : ~Responds201(h)) => server'.ticket_data = server.ticket_data
  /\ \A h \in Handlers : requests'[h].status \in {0, 201, 400, 500} /\ ReleasedOnce(h)

\* C27: a POST /tickets/batch request that responds 201 has stored all its
\* tickets under its import_id in the step that responds, no other step of
\* any request changes the stored tickets, so a request that responds 400 or
\* 500 has stored none; and a handler that acquired a client has released
\* it once when it ends, and not before
C27_AllOrNothingAndReleasedOnce == [][C27_Step]_vars

C27_Witness ==
  /\ requests[1].pc = "done" /\ requests[1].status = 500 /\ requests[1].released = 1 /\ requests[1].tickets = <<"T1", "T2">>
  /\ requests[2].pc = "done" /\ requests[2].status = 201 /\ requests[2].released = 1
  /\ server.ticket_data = [i \in ImportIds |-> IF i = requests[2].import_id THEN Len(requests[2].tickets) ELSE 0]

(***************************************************************************)
(* handleFileSelect of DataImportView, with readExcelFile.  A file is its  *)
(* name (stem and extension), its size, whether the FileReader loads it,   *)
(* and what parseExcelData and calculateWeekNumbers give for its sheet.    *)
(* A call of handleFileSelect runs up to its await, and its continuation   *)
(* runs when the reader's onload or onerror fires; run.reads holds the     *)
(* calls that are awaiting, each with the importName its closure saw.      *)
(***************************************************************************)
ALLOWED_EXTENSIONS == {<<".","x","l","s","x">>, <<".","x","l","s">>, <<".","c","s","v">>}
MaxSelections == 3
NoFile == [stem |-> <<>>, extension |-> <<>>, size |-> 0, loads |-> FALSE, rows |-> 0]

SelectableFiles ==
  { [stem |-> <<"j","a","n">>, extension |-> <<".","x","l","s","x">>, size |-> 1, loads |-> TRUE, rows |-> 1],
    [stem |-> <<"f","e","b">>, extension |-> <<".","c","s","v">>, size |-> 1, loads |-> TRUE, rows |-> 2],
    [stem |-> <<"m","a","r">>, extension |-> <<".","x","l","s">>, size |-> 1, loads |-> FALSE, rows |-> 0],
    [stem |-> <<"n","o","t","e","s">>, extension |-> <<".","t","x","t">>, size |-> 1, loads |-> TRUE, rows |-> 0],
    [stem |-> <<"e","m","p","t","y">>, extension |-> <<".","c","s","v">>, size |-> 0, loads |-> TRUE, rows |-> 0] }

\* validateExcelFile(file): the message of its error, Null when it has none
validateExcelFile(file) ==
  IF file.size = 0 THEN <<"F","i","l","e"," ","i","s"," ","e","m","p","t","y">>
  ELSE IF file.extension \notin ALLOWED_EXTENSIONS
    THEN <<"I","n","v","a","l","i","d"," ","f","i","l","e"," ","f","o","r","m","a","t","."," ","P","l","e","a","s","e"," ","u","p","l","o","a","d"," ","a","n"," ","E","x","c","e","l"," ","f","i","l","e"," ","(",".","x","l","s","x",","," ",".","x","l","s",")"," ","o","r"," ","C","S","V"," ","f","i","l","e"," ","(",".","c","s","v",")">>
  ELSE Null

\* What the catch block of handleFileSelect puts in parsedResult
FileError(message) == Result(<<>>, <<message>>)

\* What the try block puts in parsedResult for a file that was read: the
\* parse of its sheet, an error when the sheet has no ticket
ParsedFile(file) ==
  IF file.rows = 0 THEN Result(<<>>, <<<<"N","o"," ","v","a","l","i","d"," ","t","i","c","k","e","t"," ","d","a","t","a"," ","f","o","u","n","d"," ","i","n"," ","t","h","e"," ","i","n","p","u","t">>>>)
  ELSE Result(Records(file.rows), <<>>)

\* What one call of handleFileSelect(file), alone, leaves in parsedResult
ResultOfFile(file) ==
  IF validateExcelFile(file) # Null THEN FileError(validateExcelFile(file))
  ELSE IF ~file.loads THEN FileError(<<"F","a","i","l","e","d"," ","t","o"," ","r","e","a","d"," ","f","i","l","e">>)
  ELSE ParsedFile(file)

\* The continuation of handleFileSelect after its await: setImportName when
\* the name its closure saw is blank, setParsedResult, setParsing(false)
Continue(v, read, result) ==
  [v EXCEPT !.parsedResult = result, !.parsing = FALSE,
            !.importName = IF read.loaded /\ trim(read.importName) = <<>> THEN read.file.stem ELSE @]

InitSelect ==
  /\ zone = 0
  /\ phase = "select"
  /\ \E name \in ImportNames :
       view = [pastedData |-> <<>>, importName |-> name, parsedResult |-> NoResult, importing |-> FALSE,
               parsing |-> FALSE, uploadedFile |-> NoFile]
  /\ run = [reads |-> <<>>, selected |-> 0]
  /\ user = FALSE /\ requests = <<>>
  /\ server = [imports |-> <<>>, tickets |-> <<>>]
  /\ notes = [toasts |-> <<>>, completed |-> 0]
  /\ ParseIdle /\ WeeksIdle /\ CallIdle

SelectFrame == UNCHANGED <<zone, phase, parseVars, weekVars, callVars, user, requests, server, notes>>

\* handleFileSelect(file) for a file that validateExcelFile refuses: the
\* call ends in its catch and finally blocks before any other event
SelectRefused ==
  /\ phase = "select" /\ run.selected < MaxSelections
  /\ \E file \in SelectableFiles :
       /\ validateExcelFile(file) # Null
       /\ view' = [view EXCEPT !.uploadedFile = file, !.parsing = FALSE,
                               !.parsedResult = FileError(validateExcelFile(file))]
  /\ run' = [run EXCEPT !.selected = @ + 1]
  /\ SelectFrame

\* handleFileSelect(file) up to its await: the three setters, then
\* reader.readAsArrayBuffer(file)
SelectFile ==
  /\ phase = "select" /\ run.selected < MaxSelections
  /\ \E file \in SelectableFiles :
       /\ validateExcelFile(file) = Null
       /\ view' = [view EXCEPT !.uploadedFile = file, !.parsing = TRUE, !.parsedResult = NoResult]
       /\ run' = [run EXCEPT !.selected = @ + 1,
                             !.reads = Append(@, [file |-> file, importName |-> view.importName, loaded |-> FALSE])]
  /\ SelectFrame

ReadsWithout(k) == [j \in 1..(Len(run.reads) - 1) |-> IF j < k THEN run.reads[j] ELSE run.reads[j + 1]]

\* reader.onload of one of the reads in flight, and the rest of its call
ReaderLoads ==
  /\ phase = "select"
  /\ \E k \in 1..Len(run.reads) :
       /\ run.reads[k].file.loads
       /\ view' = Continue(view, [run.reads[k] EXCEPT !.loaded = TRUE], ParsedFile(run.reads[k].file))
       /\ run' = [run EXCEPT !.reads = ReadsWithout(k)]
  /\ SelectFrame

\* reader.onerror of one of the reads in flight, and the rest of its call
ReaderFails ==
  /\ phase = "select"
  /\ \E k \in 1..Len(run.reads) :
       /\ ~run.reads[k].file.loads
       /\ view' = Continue(view, run.reads[k], FileError(<<"F","a","i","l","e","d"," ","t","o"," ","r","e","a","d"," ","f","i","l","e">>))
       /\ run' = [run EXCEPT !.reads = ReadsWithout(k)]
  /\ SelectFrame

NextSelect == SelectRefused \/ SelectFile \/ ReaderLoads \/ ReaderFails

SpecSelect == InitSelect /\ [][NextSelect]_vars

\* C28: once no file read is in flight, parsedResult is the parse of the
\* file held in uploadedFile, the most recently selected one, whatever the
\* order in which the reads completed
C28_AsStated ==
  (phase = "select" /\ run.reads = <<>> /\ run.selected > 0) => view.parsedResult = ResultOfFile(view.uploadedFile)

\* The breakdown entry the drill-down was opened from, and the tickets that
\* calculate...Breakdown counted under it
DrillDown == phase = "drill" /\ callArg.kind = "drill"
DrillDownOf(type) == CHOOSE d \in AllBreakdowns : d.name = DrillDownBreakdown(type)
CountedUnder(type, item) == SelectSeq(tickets, LAMBDA ticket : ValueOrDefault(ticket, DrillDownOf(type).field, DrillDownOf(type).label) = item)

\* C29: the drill-down of an item listed in the category, priority or status
\* breakdown holds exactly the tickets counted under that item, as many as
\* the item's count, the default bucket included
C29_AsStated ==
  DrillDown =>
    /\ callResult.drillDownModal.tickets = CountedUnder(callArg.type, callArg.listed.category)
    /\ Len(callResult.drillDownModal.tickets) = callArg.listed.count

(***************************************************************************)
(* The weekly trend of TrendAnalyticsDashboard.  Each import stored the    *)
(* batch that calculateWeekNumbers had labelled, with request_times that   *)
(* are dates; loadAnalyticsData fetches the tickets of one import, or of   *)
(* all imports when it has no importId, and counts them by week_label.     *)
(***************************************************************************)
MaxImported == 2
StoredRequestTimes == {T_Day0, T_Day6, T_Day9}

\* The rows an import stored for a batch: the batch as calculateWeekNumbers
\* returned it, each ticket under the import's id
StoredRows(batch, import_id, tz) ==
  [i \in 1..Len(batch) |-> Put(calculateWeekNumbers(batch, tz)[i], "import_id", import_id)]

\* Seconds from the first stored day to the request_time of a row
RowSeconds(row, tz) ==
  (DateParse(row.request_time, tz)[1].day - DateParse(T_Day0, tz)[1].day) * SecondsPerDay + DateParse(row.request_time, tz)[1].sec

\* router.get('/') on rows: WHERE import_id, ORDER BY request_time DESC,
\* LIMIT (rows of equal request_time in their stored order)
SelectTickets(ticket_data, query, tz) ==
  Slice(Items(SortKeyed([i \in 1..Len(SelectSeq(ticket_data, LAMBDA row : query.import_id = "" \/ row.import_id = query.import_id)) |->
                           [key |-> 0 - RowSeconds(SelectSeq(ticket_data, LAMBDA row : query.import_id = "" \/ row.import_id = query.import_id)[i], tz),
                            item |-> SelectSeq(ticket_data, LAMBDA row : query.import_id = "" \/ row.import_id = query.import_id)[i]]])),
        0, query.limit)

\* weekMap.set(ticket.week_label, (weekMap.get(ticket.week_label) || 0) + 1)
CountPeriod(entries, period) ==
  IF \E i \in 1..Len(entries) : entries[i].period = period
    THEN [i \in 1..Len(entries) |-> IF entries[i].period = period THEN [entries[i] EXCEPT !.count = @ + 1] ELSE entries[i]]
    ELSE Append(entries, [period |-> period, count |-> 1])

RECURSIVE CountByWeekLabel(_)
CountByWeekLabel(data) ==
  IF data = <<>> THEN <<>>
  ELSE IF Falsy(data[Len(data)], "week_label") THEN CountByWeekLabel(SubSeq(data, 1, Len(data) - 1))
  ELSE CountPeriod(CountByWeekLabel(SubSeq(data, 1, Len(data) - 1)), data[Len(data)].week_label)

\* parseInt(period.replace('Week ', '')) for a period that is 'Week ' and
\* digits, as every label of calculateWeekNumbers for a date is
WeekOrdinal(period) ==
  IF StartsAt(period, 1, <<"W","e","e","k"," ">>) THEN DigitsValue(period, 6, Run(period, 6, DigitChars))
  ELSE DigitsValue(period, 1, Run(period, 1, DigitChars))

\* calculateWeeklyTrend(data): the trend it sets
calculateWeeklyTrend(data) ==
  Items(SortKeyed([i \in 1..Len(CountByWeekLabel(data)) |->
                     [key |-> WeekOrdinal(CountByWeekLabel(data)[i].period), item |-> CountByWeekLabel(data)[i]]]))

InitTrend ==
  /\ zone \in TimeZones
  /\ phase = "stored"
  /\ \E n1 \in 1..MaxImported, n2 \in 1..MaxImported :
       \E b1 \in [1..n1 -> StoredRequestTimes], b2 \in [1..n2 -> StoredRequestTimes] :
         server = [imports |-> <<"imp1", "imp2">>,
                   tickets |-> StoredRows([i \in 1..n1 |-> MakeTicket(b1[i], Undefined)], "imp1", zone)
                                 \o StoredRows([i \in 1..n2 |-> MakeTicket(b2[i], Undefined)], "imp2", zone)]
  /\ view = [pastedData |-> <<>>, importName |-> <<>>, parsedResult |-> NoResult, importing |-> FALSE]
  /\ user = TRUE /\ run = NoRun /\ requests = <<>>
  /\ notes = [toasts |-> <<>>, completed |-> 0]
  /\ ParseIdle /\ WeeksIdle /\ CallIdle

\* loadAnalyticsData with no dateRange: setTickets(ticketData) and
\* calculateWeeklyTrend(ticketData); importId is "" when the dashboard shows
\* all imports
LoadAnalyticsData ==
  /\ phase = "stored"
  /\ \E importId \in ImportIds \cup {""} :
       /\ callArg' = [kind |-> "load", importId |-> importId]
       /\ tickets' = SelectTickets(server.tickets, getTicketsParams([import_id |-> importId]), zone)
       /\ callResult' = [returned |-> TRUE,
                         weeklyTrend |-> calculateWeeklyTrend(SelectTickets(server.tickets, getTicketsParams([import_id |-> importId]), zone))]
  /\ phase' = "loaded"
  /\ UNCHANGED <<zone, parseVars, weeks, again, importVars>>

\* handleChartClick on a period of the weekly trend: the tickets of the modal
HandleChartClick ==
  /\ phase = "loaded" /\ callArg.kind = "load"
  /\ \E i \in 1..Len(callResult.weeklyTrend) :
       callResult' = [returned |-> TRUE, weeklyTrend |-> callResult.weeklyTrend,
                      drillDownModal |-> SelectSeq(tickets, LAMBDA ticket : Has(ticket, "week_label") /\ ticket.week_label = callResult.weeklyTrend[i].period)]
  /\ phase' = "clicked"
  /\ UNCHANGED <<zone, parseVars, weekVars, importVars, callArg>>

NextTrend == LoadAnalyticsData \/ HandleChartClick

SpecTrend == InitTrend /\ [][NextTrend]_vars

TrendLoaded == phase \in {"loaded", "clicked"} /\ callArg.kind = "load"

\* The tickets counted under a period, and whether two request_times lie
\* less than seven days apart
CountedInPeriod(period) == {i \in 1..Len(tickets) : ~Falsy(tickets[i], "week_label") /\ tickets[i].week_label = period}
WithinSevenDays(a, b) ==
  /\ RowSeconds(a, zone) - RowSeconds(b, zone) < 7 * SecondsPerDay
  /\ RowSeconds(b, zone) - RowSeconds(a, zone) < 7 * SecondsPerDay

\* C30: the tickets counted under one period of the weekly trend have
\* request_times within one 7-day window, and the periods are in ascending
\* order of their week number, also when the tickets of several imports are
\* loaded at once
C30_AsStated ==
  TrendLoaded =>
    /\ \A p \in 1..Len(callResult.weeklyTrend) :
         \A i, j \in CountedInPeriod(callResult.weeklyTrend[p].period) : WithinSevenDays(tickets[i], tickets[j])
    /\ \A p, q \in 1..Len(callResult.weeklyTrend) :
         p < q => WeekOrdinal(callResult.weeklyTrend[p].period) < WeekOrdinal(callResult.weeklyTrend[q].period)

\* The same for the tickets of one import
TrendOfOneImport ==
  (TrendLoaded /\ callArg.importId # "") =>
    /\ \A p \in 1..Len(callResult.weeklyTrend) :
         \A i, j \in CountedInPeriod(callResult.weeklyTrend[p].period) : WithinSevenDays(tickets[i], tickets[j])
    /\ \A p, q \in 1..Len(callResult.weeklyTrend) :
         p < q => WeekOrdinal(callResult.weeklyTrend[p].period) < WeekOrdinal(callResult.weeklyTrend[q].period)

====
